---- MODULE Spec2Model ----
(***************************************************************************)
(* Sparse matrix layer of opm-core: the coordinate builders, their         *)
(* conversion to CSR, the CSR queries, the ownership of the CSR arrays and *)
(* the PETSc matrix builder; and the cubic Hermite Spline.                 *)
(*                                                                         *)
(* C arrays are modelled as sequences: the C element a[k] is a[k + 1].     *)
(* Operations run to completion as in a build without assertions; whether  *)
(* an assert() of the operation would have stopped a checked build is      *)
(* recorded next to the result (field "failed").                           *)
(***************************************************************************)
EXTENDS Integers, Sequences, FiniteSets, TLC

VARIABLES
    builder,    \* SparseMatrixBuilder< Scalar, std::map< CO, Scalar > >: the map, in key order
    rows,       \* SparseMatrixBuilder::rows, set by setSize
    added,      \* history: for every key the values passed to add, in call order
    matrix,     \* the SparseMatrix< CSR< Scalar > > returned by the last conversion
    converted,  \* history: the value of added when matrix was produced
    res,        \* the last operation and what it returned
    values_,    \* SparseMatrixBuilder< Scalar >::values_: the list of triples
    sorted_,    \* SparseMatrixBuilder< Scalar >::sorted_
    csr_builder,    \* petsc::matrix::builder fed by the CSR-style insert
    direct_builder, \* petsc::matrix::builder fed by single inserts
    mtx,        \* the matrix committed from csr_builder
    dmtx,       \* the matrix committed from direct_builder
    inserted,   \* number of values handed to the PETSc builders so far
    bulked,     \* a CSR-style insert with an empty and a non-empty row was made
    objs,       \* the CSR objects: their state and their five fields
    freed,      \* for every array, the number of times delete[] was applied to it
    nalloc,     \* number of array triples allocated so far
    lastOp,     \* the last ownership operation
    visited,    \* the entries met by the last walk over the rows of matrix
    depth,      \* the activations of a const operator[] that have not returned
    spline,     \* the Spline object: xPos_, yPos_ and slopeVec_
    sop         \* the last operation on the spline and what it returned

\* the map builder, its matrix and the histories
mapVars == << builder, rows >>
\* the triple-list builder
listVars == << values_, sorted_ >>
\* the PETSc builders
petscVars == << csr_builder, direct_builder, mtx, dmtx, inserted, bulked >>
\* the CSR objects and their arrays
ownVars == << objs, freed, nalloc, lastOp >>
\* the walk over the rows
iterVars == << visited, depth >>
\* the spline
splineVars == << spline, sop >>

vars == << builder, rows, added, matrix, converted, res, values_, sorted_,
           csr_builder, direct_builder, mtx, dmtx, inserted, bulked,
           objs, freed, nalloc, lastOp, visited, depth, spline, sop >>

----------------------------------------------------------------------------
\* Bounds of the model

MaxRow == 2
MaxCol == 1
MaxVal == 2
MaxAdds == 2
PMaxRow == 1
PMaxCol == 1
MaxInserted == 2
MaxObj == 2
MaxAlloc == 2

RowIdx == 0..MaxRow
ColIdx == 0..MaxCol
Vals == 1..MaxVal
Keys == RowIdx \X ColIdx

\* a slot of new int[ n ] that was never written
Uninit == -1
\* a value read from outside the arrays
Indeterminate == -2

NoMatrix == [ rows_ |-> 0, nonzeros_ |-> 0, values_ |-> << >>,
              col_ind_ |-> << >>, row_ind_ |-> << >> ]

\* res when nothing was returned: values are positive, 0 stands for none
NoRes == [ op |-> "none", x |-> 0, y |-> 0, found |-> FALSE,
           value |-> 0, failed |-> FALSE, again |-> FALSE ]

----------------------------------------------------------------------------
\* struct CO: the key of the builder's map

CO(r, c) == [ row_ |-> r, col_ |-> c ]

\* a comparison that forgets the column
COLessRowOnly(a, b) == a.row_ < b.row_

\* CO::operator<
COLess(a, b) ==
    IF a.row_ > b.row_ THEN FALSE
    ELSE a.row_ < b.row_ \/ a.col_ < b.col_

\* std::map's key equivalence under its comparator
COEquiv(a, b) == ~COLess(a, b) /\ ~COLess(b, a)

\* position (1-based) of the first entry of the map that is not less than k
RECURSIVE MapLowerBound(_, _, _)
MapLowerBound(m, k, p) ==
    IF p > Len(m) THEN p
    ELSE IF COLess(m[p].first, k) THEN MapLowerBound(m, k, p + 1)
    ELSE p

\* SparseMatrixBuilder::add on the map storage: values added to the same
\* key are accumulated
MapAdd(m, i, j, val) ==
    LET k == CO(i, j)
        p == MapLowerBound(m, k, 1)
    IN IF p <= Len(m) /\ COEquiv(m[p].first, k)
       THEN [ m EXCEPT ![p].second = @ + val ]
       ELSE SubSeq(m, 1, p - 1) \o << [ first |-> k, second |-> val ] >>
            \o SubSeq(m, p, Len(m))

----------------------------------------------------------------------------
\* conv< Scalar, std::map< CO, Scalar >, CSR< Scalar > >::convert

\* a fill that stops one slot early
FillNShort(a, first, n, v) ==
    [ k \in 1..Len(a) |-> IF k - 1 >= first /\ k - 1 < first + n - 1 THEN v ELSE a[k] ]

\* std::fill_n( first, n, v ) on the array a; first is a C index
FillN(a, first, n, v) ==
    [ k \in 1..Len(a) |-> IF k - 1 >= first /\ k - 1 < first + n THEN v ELSE a[k] ]

\* a second pass that moves the cursor without filling the offsets
RECURSIVE RowPassNoFill(_, _, _, _, _)
RowPassNoFill(rowOf, i, curr_row, row_ind, failed) ==
    IF ~(i < Len(rowOf)) THEN [ row_ind |-> row_ind, failed |-> failed ]
    ELSE LET val_row == rowOf[i + 1]
         IN RowPassNoFill(rowOf, i + 1, val_row, row_ind, failed \/ ~(curr_row > 0))

\* second pass: the loop over the entries. rowOf[i + 1] is the row of entry
\* i, curr_row the distance of the write cursor from row_ind.get().
\* Returns the row index array and whether the loop's assert failed.
RECURSIVE RowPass(_, _, _, _, _)
RowPass(rowOf, i, curr_row, row_ind, failed) ==
    IF ~(i < Len(rowOf)) THEN [ row_ind |-> row_ind, failed |-> failed ]
    ELSE LET asserted == curr_row > 0
             row_pos == curr_row
             val_row == rowOf[i + 1]
         IN IF row_pos = val_row
            THEN RowPass(rowOf, i + 1, curr_row, row_ind, failed \/ ~asserted)
            ELSE RowPass(rowOf, i + 1, curr_row + (val_row - row_pos),
                         FillN(row_ind, curr_row + 1, val_row - row_pos, i),
                         failed \/ ~asserted)

\* the whole conversion of a non-empty map
convert(obj) ==
    LET nrows == obj[Len(obj)].first.row_ + 2
        values == [ k \in 1..Len(obj) |-> obj[k].second ]
        col_ind == [ k \in 1..Len(obj) |-> obj[k].first.col_ ]
        fresh == [ k \in 1..nrows |-> IF k = 1 THEN 0 ELSE Uninit ]
        pass == RowPass([ k \in 1..Len(obj) |-> obj[k].first.row_ ], 0, 0, fresh, FALSE)
        row_ind == [ pass.row_ind EXCEPT ![nrows] = Len(obj) ]
    IN [ m |-> [ rows_ |-> nrows - 1, nonzeros_ |-> Len(obj), values_ |-> values,
                 col_ind_ |-> col_ind, row_ind_ |-> row_ind ],
         failed |-> pass.failed ]

----------------------------------------------------------------------------
\* SparseMatrix< CSR< Scalar > >: the queries

\* a search that also steps over elements equal to x
RECURSIVE upper_bound(_, _, _, _)
upper_bound(a, first, len, x) ==
    IF len <= 0 THEN first
    ELSE LET half == len \div 2
             mid == first + half
         IN IF a[mid + 1] <= x
            THEN upper_bound(a, mid + 1, len - half - 1, x)
            ELSE upper_bound(a, first, half, x)

\* std::lower_bound on the C range [first, first + len) of a
RECURSIVE lower_bound(_, _, _, _)
lower_bound(a, first, len, x) ==
    IF len <= 0 THEN first
    ELSE LET half == len \div 2
             mid == first + half
         IN IF a[mid + 1] < x
            THEN lower_bound(a, mid + 1, len - half - 1, x)
            ELSE lower_bound(a, first, half, x)

\* std::binary_search on the C range [first, last) of a
binary_search(a, first, last, x) ==
    LET p == lower_bound(a, first, last - first, x)
    IN p # last /\ ~(x < a[p + 1])

\* std::find( first, last, x ) != last
find(a, first, last, x) == \E p \in first..(last - 1) : a[p + 1] = x

\* the linear-search threshold of exists
threshold == 0

\* the precondition asserted by exists and operator[]
RowAssert(m, x) == x < m.rows_ - 1

\* SparseMatrix< CSR< Scalar > >::exists
exists(m, x, y) ==
    LET row_begin == m.row_ind_[x + 1]
        row_end == m.row_ind_[x + 2]
    IN IF row_end - row_begin < threshold
       THEN find(m.col_ind_, row_begin, row_end, y)
       ELSE binary_search(m.col_ind_, row_begin, row_end, y)

\* CSR::row_ref::operator[] on row index_: the C position in values_ of
\* the returned reference
RowRefTarget(m, index_, x) ==
    LET begin == m.row_ind_[index_ + 1]
        end == m.row_ind_[index_ + 2]
    IN lower_bound(m.col_ind_, begin, end - begin, x)

----------------------------------------------------------------------------
\* Operations of the map builder

RECURSIVE SumLen(_, _)
SumLen(h, S) ==
    IF S = {} THEN 0
    ELSE LET k == CHOOSE e \in S : TRUE
         IN Len(h[k]) + SumLen(h, S \ {k})

\* number of add calls made so far
TotalAdds == SumLen(added, DOMAIN added)

NoAdds == [ k \in Keys |-> << >> ]

\* the state of the parts a specification does not run
ListIdle == values_ = << >> /\ sorted_ = FALSE
PetscIdle ==
    /\ csr_builder = {} /\ direct_builder = {}
    /\ mtx = {} /\ dmtx = {}
    /\ inserted = 0
    /\ bulked = FALSE
OwnIdle ==
    /\ objs = << >>
    /\ freed = << >>
    /\ nalloc = 0
    /\ lastOp = [ op |-> "none" ]
\* no walk was made
NoVisit == [ entries |-> << >>, sizes |-> << >> ]
IterIdle == visited = NoVisit /\ depth = 0
\* Spline(): no samples
NoSpline == [ xPos_ |-> << >>, yPos_ |-> << >>, slopeVec_ |-> << >> ]
NoSop == [ op |-> "none" ]
SplineIdle == spline = NoSpline /\ sop = NoSop

Init ==
    /\ builder = << >>
    /\ rows = 0
    /\ added = NoAdds
    /\ matrix = NoMatrix
    /\ converted = NoAdds
    /\ res = NoRes
    /\ ListIdle /\ PetscIdle /\ OwnIdle /\ IterIdle /\ SplineIdle

\* builder.add( i, j, val )
Add(i, j, val) ==
    /\ builder' = MapAdd(builder, i, j, val)
    /\ added' = [ added EXCEPT ![<< i, j >>] = Append(@, val) ]
    /\ res' = [ NoRes EXCEPT !.op = "add" ]
    /\ UNCHANGED << rows, matrix, converted, listVars, petscVars, ownVars, iterVars, splineVars >>

\* a conversion that empties the builder
ConvertConsuming ==
    /\ Len(builder) > 0
    /\ LET c == convert(builder)
       IN /\ matrix' = c.m
          /\ res' = [ NoRes EXCEPT !.op = "convert", !.failed = c.failed,
                                   !.again = (matrix # NoMatrix) ]
    /\ converted' = added
    /\ builder' = << >>
    /\ UNCHANGED << rows, added, listVars, petscVars, ownVars, iterVars, splineVars >>

\* builder.convert< CSR< Scalar > >() of a builder with at least one entry;
\* res.again tells that the builder was converted before
Convert ==
    /\ Len(builder) > 0
    /\ LET c == convert(builder)
       IN /\ matrix' = c.m
          /\ res' = [ NoRes EXCEPT !.op = "convert", !.failed = c.failed,
                                   !.again = (matrix # NoMatrix) ]
    /\ converted' = added
    /\ UNCHANGED << builder, rows, added, listVars, petscVars, ownVars, iterVars, splineVars >>

\* the value matrix[ x ][ y ] refers to
RowRefValue(m, x, y) ==
    LET t == RowRefTarget(m, x, y)
    IN IF t < m.nonzeros_ THEN m.values_[t + 1] ELSE Indeterminate

\* matrix.exists( x, y ) for a row of the matrix of the last conversion
Exists(x, y) ==
    /\ converted = added
    /\ x < matrix.rows_
    /\ res' = [ NoRes EXCEPT !.op = "exists", !.x = x, !.y = y,
                             !.found = exists(matrix, x, y),
                             !.failed = ~RowAssert(matrix, x) ]
    /\ UNCHANGED << builder, rows, added, matrix, converted, listVars, petscVars, ownVars, iterVars, splineVars >>

\* matrix[ x ][ y ] for a row of the matrix of the last conversion. When the
\* search ends at the end of the arrays, the column compared by the assert
\* lies outside the arrays: any column may be read there.
Subscript(x, y) ==
    /\ converted = added
    /\ x < matrix.rows_
    /\ LET t == RowRefTarget(matrix, x, y)
       IN \E read \in IF t < matrix.nonzeros_ THEN { matrix.col_ind_[t + 1] }
                      ELSE 0..(MaxCol + 1) :
            res' = [ NoRes EXCEPT !.op = "subscript", !.x = x, !.y = y,
                                 !.found = (read = y),
                                 !.value = RowRefValue(matrix, x, y),
                                 !.failed = (~RowAssert(matrix, x) \/ read # y) ]
    /\ UNCHANGED << builder, rows, added, matrix, converted, listVars, petscVars, ownVars, iterVars, splineVars >>

\* builder.setSize( r, c )
SetSize(r, c) ==
    /\ rows' = r
    /\ res' = [ NoRes EXCEPT !.op = "setSize" ]
    /\ UNCHANGED << builder, added, matrix, converted, listVars, petscVars, ownVars, iterVars, splineVars >>

Next ==
    \/ TotalAdds < MaxAdds /\ \E i \in RowIdx, j \in ColIdx, v \in Vals : Add(i, j, v)
    \/ Convert
    \/ \E x \in RowIdx, y \in ColIdx : Exists(x, y)
    \/ \E x \in RowIdx, y \in ColIdx : Subscript(x, y)

Spec == Init /\ [][Next]_vars

----------------------------------------------------------------------------
\* Properties of the map builder and its CSR matrix

\* the keys that were added in history h
AddedKeys(h) == { k \in DOMAIN h : h[k] # << >> }

\* every key of h was added at most once
UniqueKeys(h) == \A k \in DOMAIN h : Len(h[k]) <= 1

\* the highest row index added in h
MaxAddedRow(h) == CHOOSE r \in { k[1] : k \in DOMAIN h } :
    /\ \E k \in AddedKeys(h) : k[1] = r
    /\ \A k \in AddedKeys(h) : k[1] <= r

\* row r of the matrix holds no entry
EmptyRow(m, r) == m.row_ind_[r + 1] = m.row_ind_[r + 2]

C2_CsrInvariant ==
    matrix # NoMatrix =>
        /\ Len(matrix.row_ind_) = matrix.rows_ + 1
        /\ Len(matrix.col_ind_) = matrix.nonzeros_
        /\ Len(matrix.values_) = matrix.nonzeros_
        /\ matrix.row_ind_[1] = 0
        /\ \A r \in 0..(matrix.rows_ - 1) :
                matrix.row_ind_[r + 1] <= matrix.row_ind_[r + 2]
        /\ matrix.row_ind_[matrix.rows_ + 1] = matrix.nonzeros_
        /\ \A r \in 0..(matrix.rows_ - 1) :
                \A p, q \in matrix.row_ind_[r + 1]..(matrix.row_ind_[r + 2] - 1) :
                    p < q => matrix.col_ind_[p + 1] < matrix.col_ind_[q + 1]

\* a converted matrix with an empty row and a row of two entries
C2_Witness ==
    /\ res.op = "convert"
    /\ \E r \in 0..(matrix.rows_ - 1) : EmptyRow(matrix, r)
    /\ \E r \in 0..(matrix.rows_ - 1) :
            matrix.row_ind_[r + 2] - matrix.row_ind_[r + 1] >= 2

\* C3: rows() is the highest row index added plus one and nonzeros() is the
\* number of distinct keys added, whatever the order of the add calls.
C3_RowsAndNonzeros ==
    matrix # NoMatrix =>
        /\ matrix.rows_ = MaxAddedRow(converted) + 1
        /\ matrix.nonzeros_ = Cardinality(AddedKeys(converted))

\* a converted matrix with an empty row below the highest row, built from a
\* key that was added twice
C3_Witness ==
    /\ res.op = "convert"
    /\ ~UniqueKeys(converted)
    /\ matrix.rows_ >= 2
    /\ EmptyRow(matrix, 0)

\* the position (x,y) is stored in matrix
Stored(x, y) == << x, y >> \in AddedKeys(converted)

\* C5: for every row index r < rows(), the last row included, the calls
\* matrix[r], matrix[r][c] for a stored (r,c) and exists(r,c) satisfy their
\* own assertions.
C5_NoAssertionFailure ==
    /\ res.op = "exists" => ~res.failed
    /\ (res.op = "subscript" /\ Stored(res.x, res.y)) => ~res.failed

----------------------------------------------------------------------------
\* The 6x6 scenario: the six triples, values in hundredths

ScenarioSize == 6

ScenarioTriples ==
    { << 0, 0, 1000 >>, << 0, 5, 572 >>, << 1, 0, 20 >>,
      << 2, 2, 420 >>, << 3, 3, 340 >>, << 4, 2, 314 >> }

ScenarioKeys == (0..(ScenarioSize - 1)) \X (0..(ScenarioSize - 1))

InitScenario ==
    /\ builder = << >>
    /\ rows = 0
    /\ added = [ k \in ScenarioKeys |-> << >> ]
    /\ matrix = NoMatrix
    /\ converted = [ k \in ScenarioKeys |-> << >> ]
    /\ res = NoRes
    /\ ListIdle /\ PetscIdle /\ OwnIdle /\ IterIdle /\ SplineIdle

\* the triples are added once each, in any order, to a builder that is
\* given its size at any time, and converted
NextScenario ==
    \/ SetSize(ScenarioSize, ScenarioSize)
    \/ \E t \in ScenarioTriples :
            added[<< t[1], t[2] >>] = << >> /\ Add(t[1], t[2], t[3])
    \/ Convert

SpecScenario == InitScenario /\ [][NextScenario]_vars

\* the six triples were added to a builder of size 6x6 and converted
ScenarioConverted ==
    /\ res.op = "convert"
    /\ rows = ScenarioSize
    /\ \A t \in ScenarioTriples : converted[<< t[1], t[2] >>] = << t[3] >>

\* C4 as claimed: the scenario yields rows() = 6, nonzeros() = 6 and
\* row_offset = [0,2,3,4,5,6,6], the trailing empty row 5 represented.
C4_ScenarioSixRows ==
    ScenarioConverted =>
        /\ matrix.rows_ = 6
        /\ matrix.nonzeros_ = 6
        /\ matrix.row_ind_ = << 0, 2, 3, 4, 5, 6, 6 >>

\* C4 as the code has it: the conversion does not read the builder's size;
\* the matrix ends at the last row that holds an entry: rows() = 5,
\* nonzeros() = 6 and row_offset = [0,2,3,4,5,6].
C4_ScenarioFiveRows ==
    ScenarioConverted =>
        /\ matrix.rows_ = 5
        /\ matrix.nonzeros_ = 6
        /\ matrix.row_ind_ = << 0, 2, 3, 4, 5, 6 >>
        /\ matrix.col_ind_ = << 0, 5, 0, 2, 3, 2 >>
        /\ matrix.values_ = << 1000, 572, 20, 420, 340, 314 >>

\* the scenario has been run to its conversion
C4_Witness == ScenarioConverted

----------------------------------------------------------------------------
\* SparseMatrixBuilder< Scalar >: the builder that keeps a list of triples

\* struct COO: a triple of the list
COO(i, j, val) == [ row_ |-> i, col_ |-> j, value_ |-> val ]

\* COO::operator<: by row, then by column
COOLess(a, b) == a.row_ < b.row_ \/ (a.row_ = b.row_ /\ a.col_ < b.col_)

\* COO::operator==: the same position
COOEq(a, b) == a.row_ = b.row_ /\ a.col_ = b.col_

\* std::sort: any arrangement of s that is in order; the order of triples
\* that compare equivalent is not specified
sort(s) ==
    { [ k \in 1..Len(s) |-> s[p[k]] ] : p \in
        { q \in Permutations(1..Len(s)) :
            \A a, b \in 1..Len(s) : a < b => ~COOLess(s[q[b]], s[q[a]]) } }

\* std::unique with erase: of every run of equal triples the first is kept
RECURSIVE unique(_, _)
unique(s, out) ==
    IF s = << >> THEN out
    ELSE IF out # << >> /\ COOEq(out[Len(out)], Head(s))
         THEN unique(Tail(s), out)
         ELSE unique(Tail(s), Append(out, Head(s)))

\* to_csr, after the sort and the removal of duplicates: the two passes
\* over the list vals
to_csr(vals) ==
    LET nrows == vals[Len(vals)].row_ + 2
        values == [ k \in 1..Len(vals) |-> vals[k].value_ ]
        col_ind == [ k \in 1..Len(vals) |-> vals[k].col_ ]
        fresh == [ k \in 1..nrows |-> IF k = 1 THEN 0 ELSE Uninit ]
        pass == RowPass([ k \in 1..Len(vals) |-> vals[k].row_ ], 0, 0, fresh, FALSE)
        row_ind == [ pass.row_ind EXCEPT ![nrows] = Len(vals) ]
    IN [ m |-> [ rows_ |-> nrows - 1, nonzeros_ |-> Len(vals), values_ |-> values,
                 col_ind_ |-> col_ind, row_ind_ |-> row_ind ],
         failed |-> pass.failed ]

InitList ==
    /\ builder = << >>
    /\ rows = 0
    /\ added = NoAdds
    /\ matrix = NoMatrix
    /\ converted = NoAdds
    /\ res = NoRes
    /\ ListIdle /\ PetscIdle /\ OwnIdle /\ IterIdle /\ SplineIdle

\* SparseMatrixBuilder< Scalar >::add
ListAdd(i, j, val) ==
    /\ sorted_' = FALSE
    /\ values_' = Append(values_, COO(i, j, val))
    /\ added' = [ added EXCEPT ![<< i, j >>] = Append(@, val) ]
    /\ res' = [ NoRes EXCEPT !.op = "add" ]
    /\ UNCHANGED << matrix, converted, mapVars, petscVars, ownVars, iterVars, splineVars >>

\* SparseMatrixBuilder< Scalar >::to_csr of a builder with at least one triple
ToCsr ==
    /\ values_ # << >>
    /\ \E ordered \in IF sorted_ THEN { values_ } ELSE sort(values_) :
        LET kept == unique(ordered, << >>)
            c == to_csr(kept)
        IN /\ values_' = kept
           /\ matrix' = c.m
           /\ res' = [ NoRes EXCEPT !.op = "to_csr", !.failed = c.failed,
                                    !.again = (matrix # NoMatrix) ]
    /\ sorted_' = TRUE
    /\ converted' = added
    /\ UNCHANGED << added, mapVars, petscVars, ownVars, iterVars, splineVars >>

NextList ==
    \/ TotalAdds < MaxAdds /\ \E i \in RowIdx, j \in ColIdx, v \in Vals : ListAdd(i, j, v)
    \/ ToCsr

SpecList == InitList /\ [][NextList]_vars

\* the C positions of the matrix that hold an entry for (x,y)
EntriesAt(m, x, y) ==
    { p \in m.row_ind_[x + 1]..(m.row_ind_[x + 2] - 1) : m.col_ind_[p + 1] = y }

\* C6: insert semantics of the triple-list builder are last-write-wins. A
\* key added more than once has exactly one entry in the committed CSR, and
\* its value is the value of the last add for that key.
C6_LastWriteWins ==
    res.op = "to_csr" =>
        \A k \in AddedKeys(converted) :
            /\ Cardinality(EntriesAt(matrix, k[1], k[2])) = 1
            /\ \A p \in EntriesAt(matrix, k[1], k[2]) :
                    matrix.values_[p + 1] = converted[k][Len(converted[k])]

----------------------------------------------------------------------------
\* petsc::matrix::builder. A Mat is the set of its entries << row, col, value >>,
\* at most one for a position.

PRowIdx == 0..PMaxRow
PColIdx == 0..PMaxCol

\* MatSetValues( mat, 1, { row }, n, cols, vals, INSERT_VALUES ): the values
\* are set one after the other, a value set before is overwritten
RECURSIVE MatSetValues(_, _, _, _)
MatSetValues(mat, row, cols, vals) ==
    IF cols = << >> THEN mat
    ELSE MatSetValues(
            { e \in mat : ~(e[1] = row /\ e[2] = Head(cols)) }
                \cup { << row, Head(cols), Head(vals) >> },
            row, Tail(cols), Tail(vals))

\* builder::insert( row, col, value )
insert(mat, row, col, value) == MatSetValues(mat, row, << col >>, << value >>)

\* a CSR-style insert that takes every row's columns and values from the
\* start of the arrays
RECURSIVE insertCsrNoOffset(_, _, _, _, _)
insertCsrNoOffset(mat, nonzeros, row_indices, col_indices, i) ==
    IF ~(i < Len(row_indices) - 1) THEN mat
    ELSE LET row_entries == row_indices[i + 2] - row_indices[i + 1]
         IN IF row_entries = 0
            THEN insertCsrNoOffset(mat, nonzeros, row_indices, col_indices, i + 1)
            ELSE insertCsrNoOffset(
                    MatSetValues(mat, i, SubSeq(col_indices, 1, row_entries),
                                 SubSeq(nonzeros, 1, row_entries)),
                    nonzeros, row_indices, col_indices, i + 1)

\* builder::insert( nonzeros, row_indices, col_indices ): the loop from row i on
RECURSIVE insertCsr(_, _, _, _, _)
insertCsr(mat, nonzeros, row_indices, col_indices, i) ==
    IF ~(i < Len(row_indices) - 1) THEN mat
    ELSE LET row_entries == row_indices[i + 2] - row_indices[i + 1]
             offset == row_indices[i + 1]
         IN IF row_entries = 0
            THEN insertCsr(mat, nonzeros, row_indices, col_indices, i + 1)
            ELSE insertCsr(
                    MatSetValues(mat, i,
                                 SubSeq(col_indices, offset + 1, offset + row_entries),
                                 SubSeq(nonzeros, offset + 1, offset + row_entries)),
                    nonzeros, row_indices, col_indices, i + 1)

\* the single inserts insert( i, col_indices[k], nonzeros[k] ) for the rows
\* from i on and, in row i, the positions from k on
RECURSIVE insertEach(_, _, _, _, _, _)
insertEach(mat, nonzeros, row_indices, col_indices, i, k) ==
    IF i > Len(row_indices) - 2 THEN mat
    ELSE IF k > row_indices[i + 2] - 1
         THEN insertEach(mat, nonzeros, row_indices, col_indices, i + 1,
                         IF i + 1 > Len(row_indices) - 2 THEN 0
                         ELSE row_indices[i + 2])
         ELSE insertEach(insert(mat, i, col_indices[k + 1], nonzeros[k + 1]),
                         nonzeros, row_indices, col_indices, i, k + 1)

\* builder::commit: assemble, then copy the matrix
commit(mat) == mat

\* the row offset arrays of a CSR-style insert of n values: between one and
\* PMaxRow + 2 offsets that do not decrease and lie within the values
RowIndices(n) ==
    UNION { { r \in [ 1..len -> 0..n ] : \A a \in 1..(len - 1) : r[a] <= r[a + 1] } :
            len \in 1..(PMaxRow + 2) }

InitPetsc ==
    /\ builder = << >>
    /\ rows = 0
    /\ added = NoAdds
    /\ matrix = NoMatrix
    /\ converted = NoAdds
    /\ res = NoRes
    /\ ListIdle /\ PetscIdle /\ OwnIdle /\ IterIdle /\ SplineIdle

\* insert( row, col, value ) on both builders
PetscInsert(row, col, value) ==
    /\ csr_builder' = insert(csr_builder, row, col, value)
    /\ direct_builder' = insert(direct_builder, row, col, value)
    /\ inserted' = inserted + 1
    /\ res' = [ NoRes EXCEPT !.op = "insert" ]
    /\ UNCHANGED << mtx, dmtx, bulked, added, matrix, converted, mapVars, listVars, ownVars, iterVars, splineVars >>

\* insert( nonzeros, row_indices, col_indices ) on csr_builder, and the
\* single inserts of the same entries on direct_builder
PetscInsertCsr(nonzeros, row_indices, col_indices) ==
    /\ csr_builder' = insertCsr(csr_builder, nonzeros, row_indices, col_indices, 0)
    /\ direct_builder' = insertEach(direct_builder, nonzeros, row_indices, col_indices,
                                    0, row_indices[1])
    /\ inserted' = inserted + Len(nonzeros)
    /\ bulked' = (bulked \/ \E a, b \in 1..(Len(row_indices) - 1) :
                                /\ row_indices[a] = row_indices[a + 1]
                                /\ row_indices[b] < row_indices[b + 1])
    /\ res' = [ NoRes EXCEPT !.op = "insertCsr" ]
    /\ UNCHANGED << mtx, dmtx, added, matrix, converted, mapVars, listVars, ownVars, iterVars, splineVars >>

\* commit() of both builders
PetscCommit ==
    /\ mtx' = commit(csr_builder)
    /\ dmtx' = commit(direct_builder)
    /\ res' = [ NoRes EXCEPT !.op = "commit" ]
    /\ UNCHANGED << csr_builder, direct_builder, inserted, bulked,
                    added, matrix, converted, mapVars, listVars, ownVars, iterVars, splineVars >>

NextPetsc ==
    \/ inserted < MaxInserted
        /\ \E row \in PRowIdx, col \in PColIdx, value \in Vals : PetscInsert(row, col, value)
    \/ \E n \in 0..(MaxInserted - inserted) :
        \E nonzeros \in [ 1..n -> Vals ], col_indices \in [ 1..n -> PColIdx ],
           row_indices \in RowIndices(n) :
            PetscInsertCsr(nonzeros, row_indices, col_indices)
    \/ PetscCommit

SpecPetsc == InitPetsc /\ [][NextPetsc]_vars

\* C7: the CSR-style insert is equivalent to single inserts. The builder
\* fed by insert( values, rowOffsets, colIndices ) and the builder fed by
\* insert( i, colIndices[k], values[k] ) for every row i and every k of the
\* row hold the same entries, and so do the matrices committed from them;
\* empty rows contribute nothing.
C7_BulkEqualsSingles ==
    /\ csr_builder = direct_builder
    /\ mtx = dmtx

\* matrices were committed after a CSR-style insert that had an empty row
\* and a non-empty row
C7_Witness ==
    /\ res.op = "commit"
    /\ bulked
    /\ Cardinality(mtx) >= 2

----------------------------------------------------------------------------
\* Ownership of the CSR arrays. An array is named by the number of the
\* allocation it came from; values_, col_ind_ and row_ind_ of an object are
\* such numbers or NULL.

NULL == 0

ObjIds == 1..MaxObj
AllocIds == 1..MaxAlloc
Arrays == { "values_", "col_ind_", "row_ind_" }

\* a CSR object that has not been constructed
NoObj == [ state |-> "none", rows_ |-> 0, nonzeros_ |-> 0,
           values_ |-> NULL, col_ind_ |-> NULL, row_ind_ |-> NULL ]

\* the five fields of unmanaged::CSR
Fields(x) == [ rows_ |-> x.rows_, nonzeros_ |-> x.nonzeros_, values_ |-> x.values_,
               col_ind_ |-> x.col_ind_, row_ind_ |-> x.row_ind_ ]

\* an object with the fields f
WithFields(x, f) == [ x EXCEPT !.rows_ = f.rows_, !.nonzeros_ = f.nonzeros_,
                               !.values_ = f.values_, !.col_ind_ = f.col_ind_,
                               !.row_ind_ = f.row_ind_ ]

\* CSR::get: an unmanaged copy of the object
get(x) == Fields(x)

\* CSR::release: the unmanaged copy returned and the object afterwards
release(x) ==
    [ ret |-> Fields(x),
      obj |-> [ x EXCEPT !.values_ = NULL, !.col_ind_ = NULL, !.row_ind_ = NULL ] ]

NoOp == [ op |-> "none", dst |-> 0, src |-> 0, before |-> Fields(NoObj) ]

InitOwn ==
    /\ builder = << >>
    /\ rows = 0
    /\ added = NoAdds
    /\ matrix = NoMatrix
    /\ converted = NoAdds
    /\ res = NoRes
    /\ ListIdle /\ PetscIdle /\ IterIdle /\ SplineIdle
    /\ objs = [ o \in ObjIds |-> NoObj ]
    /\ freed = [ a \in AllocIds |-> [ k \in Arrays |-> 0 ] ]
    /\ nalloc = 0
    /\ lastOp = NoOp

OwnFrame == UNCHANGED << added, matrix, converted, res, mapVars, listVars, petscVars,
                         iterVars, splineVars >>

\* CSR( rows, nonzeros, values, col_ind, row_ind ): the object takes over
\* the three arrays a conversion allocated, here of a matrix of n rows and
\* n entries
Construct(o, n) ==
    /\ objs[o].state = "none"
    /\ nalloc < MaxAlloc
    /\ nalloc' = nalloc + 1
    /\ objs' = [ objs EXCEPT ![o] =
                    [ state |-> "live", rows_ |-> n, nonzeros_ |-> n,
                      values_ |-> nalloc + 1, col_ind_ |-> nalloc + 1,
                      row_ind_ |-> nalloc + 1 ] ]
    /\ lastOp' = [ NoOp EXCEPT !.op = "construct", !.dst = o ]
    /\ UNCHANGED freed
    /\ OwnFrame

\* CSR( CSR&& mv ): unmanaged( mv.release() )
MoveConstruct(dst, src) ==
    /\ dst # src
    /\ objs[dst].state = "none"
    /\ objs[src].state = "live"
    /\ LET r == release(objs[src])
       IN objs' = [ objs EXCEPT ![dst] = WithFields([ NoObj EXCEPT !.state = "live" ], r.ret),
                                ![src] = r.obj ]
    /\ lastOp' = [ op |-> "moveConstruct", dst |-> dst, src |-> src,
                   before |-> Fields(objs[src]) ]
    /\ UNCHANGED << freed, nalloc >>
    /\ OwnFrame

\* CSR& operator=( CSR&& ) = default: the five fields are copied
MoveAssign(dst, src) ==
    /\ dst # src
    /\ objs[dst].state = "live"
    /\ objs[src].state = "live"
    /\ objs' = [ objs EXCEPT ![dst] = WithFields(@, Fields(objs[src])) ]
    /\ lastOp' = [ op |-> "moveAssign", dst |-> dst, src |-> src,
                   before |-> Fields(objs[src]) ]
    /\ UNCHANGED << freed, nalloc >>
    /\ OwnFrame

\* SparseMatrix::operator=( SparseMatrix&& mv ): the five fields are copied,
\* then mv.release()
SparseMatrixMoveAssign(dst, src) ==
    /\ dst # src
    /\ objs[dst].state = "live"
    /\ objs[src].state = "live"
    /\ objs' = [ objs EXCEPT ![dst] = WithFields(@, Fields(objs[src])),
                             ![src] = release(objs[src]).obj ]
    /\ lastOp' = [ op |-> "sparseMatrixMoveAssign", dst |-> dst, src |-> src,
                   before |-> Fields(objs[src]) ]
    /\ UNCHANGED << freed, nalloc >>
    /\ OwnFrame

\* o.get()
Get(o) ==
    /\ objs[o].state = "live"
    /\ lastOp' = [ op |-> "get", dst |-> 0, src |-> o, before |-> get(objs[o]) ]
    /\ UNCHANGED << objs, freed, nalloc >>
    /\ OwnFrame

\* o.release()
Release(o) ==
    /\ objs[o].state = "live"
    /\ objs' = [ objs EXCEPT ![o] = release(objs[o]).obj ]
    /\ lastOp' = [ op |-> "release", dst |-> 0, src |-> o,
                   before |-> release(objs[o]).ret ]
    /\ UNCHANGED << freed, nalloc >>
    /\ OwnFrame

\* ~CSR(): delete[] of every array that is not NULL
Destroy(o) ==
    /\ objs[o].state = "live"
    /\ objs' = [ objs EXCEPT ![o].state = "dead" ]
    /\ freed' = [ a \in AllocIds |-> [ k \in Arrays |->
                    IF objs[o][k] = a THEN freed[a][k] + 1 ELSE freed[a][k] ] ]
    /\ lastOp' = [ NoOp EXCEPT !.op = "destroy", !.src = o ]
    /\ UNCHANGED nalloc
    /\ OwnFrame

NextOwn ==
    \/ \E o \in ObjIds, n \in 1..MaxAdds : Construct(o, n)
    \/ \E dst, src \in ObjIds : MoveConstruct(dst, src)
    \/ \E dst, src \in ObjIds : MoveAssign(dst, src)
    \/ \E dst, src \in ObjIds : SparseMatrixMoveAssign(dst, src)
    \/ \E o \in ObjIds : Get(o)
    \/ \E o \in ObjIds : Release(o)
    \/ \E o \in ObjIds : Destroy(o)

SpecOwn == InitOwn /\ [][NextOwn]_vars

\* C9: move construction and move assignment leave the moved-from object
\* empty but valid: rows() = 0, nonzeros() = 0 and the three array pointers
\* null, while the destination holds the source's former rows, nonzeros and
\* arrays.
C9_MovedFromEmpty ==
    lastOp.op \in { "moveConstruct", "moveAssign", "sparseMatrixMoveAssign" } =>
        /\ objs[lastOp.src].rows_ = 0
        /\ objs[lastOp.src].nonzeros_ = 0
        /\ \A k \in Arrays : objs[lastOp.src][k] = NULL
        /\ Fields(objs[lastOp.dst]) = lastOp.before

\* the live objects whose pointer k is the array a
Owners(a, k) == { o \in ObjIds : objs[o].state = "live" /\ objs[o][k] = a }

\* C10: exclusive ownership. Every array is owned by at most one live CSR
\* object, no array is deleted twice, and get() leaves the object its arrays.
C10_ExclusiveOwnership ==
    \A a \in AllocIds, k \in Arrays :
        /\ Cardinality(Owners(a, k)) <= 1
        /\ freed[a][k] <= 1
        /\ lastOp.op = "get" => Fields(objs[lastOp.src]) = lastOp.before

----------------------------------------------------------------------------
\* Row iteration: SparseMatrix< CSR< Scalar > >::begin / end, row_itr,
\* row_ref and col_itr

\* an end() that stops before the last row
MatrixEndShort(m) == m.rows_ - 1

\* SparseMatrix< CSR< Scalar > >::begin: the index_ of the row iterator
MatrixBegin(m) == 0

\* SparseMatrix< CSR< Scalar > >::end: the index_ of the row iterator
MatrixEnd(m) == m.rows_

\* row_ref::begin: the index_ of the column iterator
RowRefBegin(m, index_) == m.row_ind_[index_ + 1]

\* row_ref::end: the index_ of the column iterator
RowRefEnd(m, index_) == m.row_ind_[index_ + 2]

\* row_ref::size
RowRefSize(m, index_) == m.row_ind_[index_ + 2] - m.row_ind_[index_ + 1]

\* col_itr::index and col_itr::operator*; outside the arrays anything is read
ColItrIndex(m, index_) ==
    IF index_ < m.nonzeros_ THEN m.col_ind_[index_ + 1] ELSE Indeterminate
ColItrValue(m, index_) ==
    IF index_ < m.nonzeros_ THEN m.values_[index_ + 1] ELSE Indeterminate

\* for( c = row.begin(); c != row.end(); ++c ) on row number row, the column
\* iterator being at index_: the triples << row, c.index(), *c >> are
\* appended to acc. The walk is cut where it leaves the arrays.
RECURSIVE ColWalk(_, _, _, _)
ColWalk(m, row, index_, acc) ==
    IF index_ = RowRefEnd(m, row) THEN acc
    ELSE IF ~(index_ < m.nonzeros_)
         THEN Append(acc, << row, Indeterminate, Indeterminate >>)
         ELSE ColWalk(m, row, index_ + 1,
                      Append(acc, << row, ColItrIndex(m, index_), ColItrValue(m, index_) >>))

\* for( r = matrix.begin(); r != matrix.end(); ++r ), the row iterator being
\* at index_: the entries met and the size() of every row
RECURSIVE RowWalk(_, _, _)
RowWalk(m, index_, acc) ==
    IF index_ = MatrixEnd(m) THEN acc
    ELSE RowWalk(m, index_ + 1,
                 [ entries |-> ColWalk(m, index_, RowRefBegin(m, index_), acc.entries),
                   sizes |-> Append(acc.sizes, RowRefSize(m, index_)) ])

\* the walk over the matrix of the last conversion
Iterate ==
    /\ converted = added
    /\ matrix # NoMatrix
    /\ visited' = RowWalk(matrix, MatrixBegin(matrix), NoVisit)
    /\ UNCHANGED depth
    /\ res' = [ NoRes EXCEPT !.op = "iterate" ]
    /\ UNCHANGED << builder, rows, added, matrix, converted, listVars, petscVars,
                    ownVars, splineVars >>

NextIter ==
    \/ TotalAdds < MaxAdds /\ \E i \in RowIdx, j \in ColIdx, v \in Vals : Add(i, j, v)
    \/ Convert
    \/ Iterate

SpecIter == Init /\ [][NextIter]_vars

\* C11: row iteration is complete and ordered. The walk meets every key of
\* the builder exactly once, in ascending (row, column) order, with the
\* value the builder holds for the key; size() of a row is the number of
\* keys of that row.
C11_RowIteration ==
    res.op = "iterate" =>
        LET e == visited.entries
        IN /\ Len(e) = Len(builder)
           /\ \A p \in 1..Len(e) :
                /\ e[p][1] = builder[p].first.row_
                /\ e[p][2] = builder[p].first.col_
                /\ e[p][3] = builder[p].second
           /\ \A p, q \in 1..Len(e) :
                p < q => \/ e[p][1] < e[q][1]
                         \/ e[p][1] = e[q][1] /\ e[p][2] < e[q][2]
           /\ AddedKeys(added) = { << e[p][1], e[p][2] >> : p \in 1..Len(e) }
           /\ Len(visited.sizes) = matrix.rows_
           /\ \A r \in 0..(matrix.rows_ - 1) :
                visited.sizes[r + 1] = Cardinality({ k \in AddedKeys(added) : k[1] = r })

\* a walk over a matrix with two entries and an empty row
C11_Witness ==
    /\ res.op = "iterate"
    /\ Len(visited.entries) >= 2
    /\ \E r \in 1..Len(visited.sizes) : visited.sizes[r] = 0

----------------------------------------------------------------------------
\* C12: in a build with assertions, matrix[r][c] for a position that is an
\* implicit zero always fails its check; it never returns the value stored
\* for another position.
C12_ImplicitZeroFails ==
    (res.op = "subscript" /\ ~Stored(res.x, res.y)) => res.failed

----------------------------------------------------------------------------
\* Scalars of the spline. A Scalar is a fraction << numerator, denominator >>
\* in lowest terms with a positive denominator: the operations of the code
\* are carried out exactly.

RECURSIVE GCD(_, _)
GCD(a, b) == IF b = 0 THEN a ELSE GCD(b, a % b)

QAbs(n) == IF n < 0 THEN -n ELSE n

\* the fraction n / d, d # 0
QNorm(n, d) ==
    LET g == GCD(QAbs(n), QAbs(d))
        sgn == IF d < 0 THEN -1 ELSE 1
    IN << sgn * (n \div g), sgn * (d \div g) >>

Q(n) == << n, 1 >>
QAdd(a, b) == QNorm(a[1] * b[2] + b[1] * a[2], a[2] * b[2])
QSub(a, b) == QNorm(a[1] * b[2] - b[1] * a[2], a[2] * b[2])
QMul(a, b) == QNorm(a[1] * b[1], a[2] * b[2])
QDiv(a, b) == QNorm(a[1] * b[2], a[2] * b[1])
QLess(a, b) == a[1] * b[2] < b[1] * a[2]
QSum4(a, b, c, d) == QAdd(QAdd(a, b), QAdd(c, d))

----------------------------------------------------------------------------
\* Spline: the queries. s is the spline, the index i is the C index.

numSamples(s) == Len(s.xPos_)
x_(s, i) == s.xPos_[i + 1]
y_(s, i) == s.yPos_[i + 1]
\* the slopes are Scalars that depend on divisions: they are kept as fractions
slope_(s, i) == s.slopeVec_[i + 1]

\* h_( i ): x[i] - x[i - 1]
h_(s, i) == x_(s, i) - x_(s, i - 1)

\* an applies that leaves out the right end
appliesOpen(s, x) == x_(s, 0) <= x /\ x < x_(s, numSamples(s) - 1)

applies(s, x) == x_(s, 0) <= x /\ x <= x_(s, numSamples(s) - 1)
xMin(s) == x_(s, 0)
xMax(s) == x_(s, numSamples(s) - 1)

\* a bisection that moves iHigh at a sample equal to x
RECURSIVE BisectAtOrAbove(_, _, _, _)
BisectAtOrAbove(s, x, iLow, iHigh) ==
    IF iLow + 1 < iHigh
    THEN LET i == (iLow + iHigh) \div 2
         IN IF x_(s, i) >= x THEN BisectAtOrAbove(s, x, iLow, i)
            ELSE BisectAtOrAbove(s, x, i, iHigh)
    ELSE iLow

\* segmentIdx_: the bisection
RECURSIVE Bisect(_, _, _, _)
Bisect(s, x, iLow, iHigh) ==
    IF iLow + 1 < iHigh
    THEN LET i == (iLow + iHigh) \div 2
         IN IF x_(s, i) > x THEN Bisect(s, x, iLow, i) ELSE Bisect(s, x, i, iHigh)
    ELSE iLow

segmentIdx_(s, x) == Bisect(s, x, 0, numSamples(s) - 1)

\* a basis function that lost its constant term
h00NoOne_(t) == QMul(QMul(QSub(QMul(Q(2), t), Q(3)), t), t)

\* hermite basis functions
h00_(t) == QAdd(QMul(QMul(QSub(QMul(Q(2), t), Q(3)), t), t), Q(1))
h10_(t) == QMul(QAdd(QMul(QSub(t, Q(2)), t), Q(1)), t)
h01_(t) == QMul(QMul(QAdd(QMul(Q(-2), t), Q(3)), t), t)
h11_(t) == QMul(QMul(QSub(t, Q(1)), t), t)

\* first derivative of the hermite basis functions
h00_prime_(t) == QMul(QSub(QMul(Q(3 * 2), t), Q(2 * 3)), t)
h10_prime_(t) == QAdd(QMul(QSub(QMul(Q(3), t), Q(2 * 2)), t), Q(1))
h01_prime_(t) == QMul(QAdd(QMul(Q(-3 * 2), t), Q(2 * 3)), t)
h11_prime_(t) == QMul(QSub(QMul(Q(3), t), Q(2)), t)

\* second derivative of the hermite basis functions
h00_prime2_(t) == QSub(QMul(Q(2 * 3 * 2), t), Q(2 * 3))
h10_prime2_(t) == QSub(QMul(Q(2 * 3), t), Q(2 * 2))
h01_prime2_(t) == QAdd(QMul(Q(-2 * 3 * 2), t), Q(2 * 3))
h11_prime2_(t) == QSub(QMul(Q(2 * 3), t), Q(2))

\* third derivative of the hermite basis functions
h00_prime3_(t) == Q(2 * 3 * 2)
h10_prime3_(t) == Q(2 * 3)
h01_prime3_(t) == Q(-2 * 3 * 2)
h11_prime3_(t) == Q(2 * 3)

\* the four terms of a segment, weighted by the basis values b
HermiteSum(s, i, delta, b) ==
    QSum4(QMul(b[1], Q(y_(s, i))),
          QMul(QMul(b[2], slope_(s, i)), delta),
          QMul(b[3], Q(y_(s, i + 1))),
          QMul(QMul(b[4], slope_(s, i + 1)), delta))

\* eval_( x, i ): the spline on segment i at the Scalar x
eval_(s, x, i) ==
    LET delta == Q(h_(s, i + 1))
        t == QDiv(QSub(x, Q(x_(s, i))), delta)
    IN HermiteSum(s, i, delta, << h00_(t), h10_(t), h01_(t), h11_(t) >>)

\* a derivative that is not scaled by 1 / delta
evalDerivativeNoAlpha_(s, x, i) ==
    LET delta == Q(h_(s, i + 1))
        t == QDiv(QSub(x, Q(x_(s, i))), delta)
    IN HermiteSum(s, i, delta,
                  << h00_prime_(t), h10_prime_(t), h01_prime_(t), h11_prime_(t) >>)

evalDerivative_(s, x, i) ==
    LET delta == Q(h_(s, i + 1))
        t == QDiv(QSub(x, Q(x_(s, i))), delta)
        alpha == QDiv(Q(1), delta)
    IN QMul(alpha, HermiteSum(s, i, delta,
                << h00_prime_(t), h10_prime_(t), h01_prime_(t), h11_prime_(t) >>))

evalDerivative2_(s, x, i) ==
    LET delta == Q(h_(s, i + 1))
        t == QDiv(QSub(x, Q(x_(s, i))), delta)
        alpha == QDiv(Q(1), delta)
    IN QMul(QMul(alpha, alpha), HermiteSum(s, i, delta,
                << h00_prime2_(t), h10_prime2_(t), h01_prime2_(t), h11_prime2_(t) >>))

evalDerivative3_(s, x, i) ==
    LET delta == Q(h_(s, i + 1))
        t == QDiv(QSub(x, Q(x_(s, i))), delta)
        alpha == QDiv(Q(1), delta)
    IN QMul(QMul(QMul(alpha, alpha), alpha), HermiteSum(s, i, delta,
                << h00_prime3_(t), h10_prime3_(t), h01_prime3_(t), h11_prime3_(t) >>))

\* the public evaluations at the sample-grid point x: the value returned
\* when the call runs on, and whether its assert fails
eval(s, x, extrapolate) ==
    [ failed |-> ~(extrapolate \/ applies(s, x)),
      value |->
        IF extrapolate /\ x < xMin(s)
        THEN LET m == evalDerivative_(s, Q(xMin(s)), 0)
                 y0 == Q(y_(s, 0))
             IN QAdd(y0, QMul(m, Q(x - xMin(s))))
        ELSE IF extrapolate /\ x > xMax(s)
        THEN LET m == evalDerivative_(s, Q(xMax(s)), numSamples(s) - 2)
                 y0 == Q(y_(s, numSamples(s) - 1))
             IN QAdd(y0, QMul(m, Q(x - xMax(s))))
        ELSE eval_(s, Q(x), segmentIdx_(s, x)) ]

evalDerivative(s, x, extrapolate) ==
    [ failed |-> ~(extrapolate \/ applies(s, x)),
      value |->
        IF extrapolate /\ x < xMin(s)
        THEN evalDerivative_(s, Q(xMin(s)), 0)
        ELSE IF extrapolate /\ x > xMax(s)
        THEN evalDerivative_(s, Q(xMax(s)), numSamples(s) - 2)
        ELSE evalDerivative_(s, Q(x), segmentIdx_(s, x)) ]

evalSecondDerivative(s, x, extrapolate) ==
    [ failed |-> ~(extrapolate \/ applies(s, x)),
      value |-> IF extrapolate THEN Q(0)
                ELSE evalDerivative2_(s, Q(x), segmentIdx_(s, x)) ]

evalThirdDerivative(s, x, extrapolate) ==
    [ failed |-> ~(extrapolate \/ applies(s, x)),
      value |-> IF extrapolate THEN Q(0)
                ELSE evalDerivative3_(s, Q(x), segmentIdx_(s, x)) ]

----------------------------------------------------------------------------
\* Evaluation of a spline that holds samples

MaxX == 2
SMaxY == 1
MaxSlope == 1

\* sample positions, sample values, slopes and the points of evaluation
XVals == 0..MaxX
YVals == 0..SMaxY
SlopeVals == (-MaxSlope)..MaxSlope
XQuery == (-1)..(MaxX + 1)

Ascending(xs) == \A a \in 1..(Len(xs) - 1) : xs[a] < xs[a + 1]

\* the splines of n samples with ascending positions out of X
SplinesOf(X, n) ==
    { [ xPos_ |-> xs, yPos_ |-> ys, slopeVec_ |-> [ k \in 1..n |-> Q(ms[k]) ] ] :
        xs \in { v \in [ 1..n -> X ] : Ascending(v) },
        ys \in [ 1..n -> YVals ],
        ms \in [ 1..n -> SlopeVals ] }

SplineFrame ==
    UNCHANGED << added, matrix, converted, res, mapVars, listVars, petscVars,
                 ownVars, iterVars >>

\* a spline of two or more samples, whatever its slopes
InitEval ==
    /\ builder = << >>
    /\ rows = 0
    /\ added = NoAdds
    /\ matrix = NoMatrix
    /\ converted = NoAdds
    /\ res = NoRes
    /\ ListIdle /\ PetscIdle /\ OwnIdle /\ IterIdle
    /\ spline \in UNION { SplinesOf(XVals, n) : n \in 2..(MaxX + 1) }
    /\ sop = NoSop

Returned(op, x, extrapolate, r) ==
    [ op |-> op, x |-> x, extrapolate |-> extrapolate,
      value |-> r.value, failed |-> r.failed ]

Eval(x, extrapolate) ==
    /\ sop' = Returned("eval", x, extrapolate, eval(spline, x, extrapolate))
    /\ UNCHANGED spline
    /\ SplineFrame

EvalDerivative(x, extrapolate) ==
    /\ sop' = Returned("evalDerivative", x, extrapolate,
                       evalDerivative(spline, x, extrapolate))
    /\ UNCHANGED spline
    /\ SplineFrame

EvalSecondDerivative(x, extrapolate) ==
    /\ sop' = Returned("evalSecondDerivative", x, extrapolate,
                       evalSecondDerivative(spline, x, extrapolate))
    /\ UNCHANGED spline
    /\ SplineFrame

EvalThirdDerivative(x, extrapolate) ==
    /\ sop' = Returned("evalThirdDerivative", x, extrapolate,
                       evalThirdDerivative(spline, x, extrapolate))
    /\ UNCHANGED spline
    /\ SplineFrame

\* the segment lookup on its own
SegmentIdx(x) ==
    /\ sop' = [ op |-> "segmentIdx_", x |-> x, extrapolate |-> FALSE,
                value |-> segmentIdx_(spline, x), failed |-> FALSE ]
    /\ UNCHANGED spline
    /\ SplineFrame

\* the evaluations are const: the results met from the spline as it was
\* built are all the results there are
NextEval ==
    /\ sop = NoSop
    /\ \E x \in XQuery, extrapolate \in BOOLEAN :
        \/ Eval(x, extrapolate)
        \/ EvalDerivative(x, extrapolate)
        \/ EvalSecondDerivative(x, extrapolate)
        \/ EvalThirdDerivative(x, extrapolate)
        \/ SegmentIdx(x)

SpecEval == InitEval /\ [][NextEval]_vars

EvalOps == { "eval", "evalDerivative", "evalSecondDerivative", "evalThirdDerivative" }

\* C13: interpolation. eval at the position of a sample returns the value
\* of the sample, at the last sample too, whatever the slopes.
C13_Interpolation ==
    sop.op = "eval" =>
        \A i \in 0..(numSamples(spline) - 1) :
            sop.x = x_(spline, i) => sop.value = Q(y_(spline, i)) /\ ~sop.failed

\* eval at the last of three samples, of a value other than 0
C13_Witness ==
    /\ sop.op = "eval"
    /\ numSamples(spline) >= 3
    /\ sop.x = xMax(spline)
    /\ sop.value # Q(0)

\* C14: without extrapolation the four evaluations fail exactly when
\* x < xMin or x > xMax, which is when applies(x) is false; for x within
\* the range they return a value.
C14_DomainCheck ==
    (sop.op \in EvalOps /\ ~sop.extrapolate) =>
        /\ sop.failed <=> (sop.x < xMin(spline) \/ sop.x > xMax(spline))
        /\ sop.failed <=> ~applies(spline, sop.x)
        /\ ~sop.failed => sop.value[2] > 0

\* a third derivative at xMax and an evaluation right of xMax, both
\* without extrapolation
C14_Witness ==
    /\ sop.op \in { "evalThirdDerivative", "eval" }
    /\ ~sop.extrapolate
    /\ \/ sop.op = "evalThirdDerivative" /\ sop.x = xMax(spline) /\ ~sop.failed
       \/ sop.op = "eval" /\ sop.x > xMax(spline) /\ sop.failed

\* the end sample nearest to x
EndIdx(s, x) == IF x < xMin(s) THEN 0 ELSE numSamples(s) - 1

\* C15: with extrapolation and x outside [xMin, xMax] the spline is
\* extended by the straight line through the nearest end sample with the
\* slope stored there: eval is y_end + m * (x - x_end), evalDerivative is m,
\* the second and third derivative are 0; at x_end the value is y_end.
C15_StraightLine ==
    (sop.op \in EvalOps /\ sop.extrapolate) =>
        LET e == EndIdx(spline, sop.x)
            m == slope_(spline, e)
        IN /\ ~sop.failed
           /\ (sop.x < xMin(spline) \/ sop.x > xMax(spline)) =>
                /\ sop.op = "eval" =>
                    sop.value = QAdd(Q(y_(spline, e)), QMul(m, Q(sop.x - x_(spline, e))))
                /\ sop.op = "evalDerivative" => sop.value = m
                /\ sop.op = "evalSecondDerivative" => sop.value = Q(0)
                /\ sop.op = "evalThirdDerivative" => sop.value = Q(0)
           /\ (sop.op = "eval" /\ sop.x \in { xMin(spline), xMax(spline) }) =>
                sop.value = Q(y_(spline, EndIdx(spline, sop.x - 1)))

\* an extrapolated value right of a last segment of length 2 whose end
\* slope is not 0
C15_Witness ==
    /\ sop.op = "eval"
    /\ sop.extrapolate
    /\ sop.x > xMax(spline)
    /\ h_(spline, numSamples(spline) - 1) >= 2
    /\ slope_(spline, numSamples(spline) - 1) # Q(0)

----------------------------------------------------------------------------
\* Spline: the set operations. The slopes are the solution of a linear
\* system that TridiagonalMatrix::solve computes; a slope is kept as the
\* term that names what it was computed from.

MaxPts == 3

SplineTypes == { "Full", "Natural", "Periodic", "Monotonic" }

\* the entry points of a set operation; all but the last assert that there
\* is more than one sample
Entries == { "setXYArrays", "setXYContainers", "setArrayOfPoints",
             "setContainerOfPoints", "setContainerOfTuples" }

\* the input samples: sequences of points << x, y >>
Points(n) == [ 1..n -> XVals \X YVals ]

\* what is asked for: the setters that take m0 and m1 build a full spline,
\* the others the spline of the splineType they are given
Kinds ==
    { [ typed |-> FALSE, type |-> "Full", m0 |-> m0, m1 |-> m1 ] :
        m0 \in 0..MaxSlope, m1 \in 0..MaxSlope }
    \cup { [ typed |-> TRUE, type |-> t, m0 |-> 0, m1 |-> 0 ] : t \in SplineTypes }

\* the slope of sample k of the spline of the given kind through xs, ys
SlopeOf(kind, xs, ys, k) ==
    [ type |-> kind.type, m0 |-> kind.m0, m1 |-> kind.m1, xs |-> xs, ys |-> ys, k |-> k ]

\* a slope that was never computed: the zero a resize puts in
ZeroSlope == [ type |-> "zero", m0 |-> 0, m1 |-> 0, xs |-> << >>, ys |-> << >>, k |-> 0 ]

\* std::vector::resize: the elements kept, new elements zero
Resize(v, n, zero) == [ k \in 1..n |-> IF k <= Len(v) THEN v[k] ELSE zero ]

\* setNumSamples_
setNumSamples_(s, nSamples) ==
    [ xPos_ |-> Resize(s.xPos_, nSamples, 0),
      yPos_ |-> Resize(s.yPos_, nSamples, 0),
      slopeVec_ |-> Resize(s.slopeVec_, nSamples, ZeroSlope) ]

\* the copy of the input into xPos_ and yPos_
CopySamples(s, pts) ==
    [ s EXCEPT !.xPos_ = [ k \in 1..Len(pts) |-> pts[k][1] ],
               !.yPos_ = [ k \in 1..Len(pts) |-> pts[k][2] ] ]

\* sortInput_: std::sort of the indices by x, then the reordering; samples
\* of equal x end in any order
sortInput_(s) ==
    LET n == numSamples(s)
    IN { [ s EXCEPT !.xPos_ = [ k \in 1..n |-> s.xPos_[idxVector[k]] ],
                    !.yPos_ = [ k \in 1..n |-> s.yPos_[idxVector[k]] ] ] :
            idxVector \in { q \in Permutations(1..n) :
                \A a, b \in 1..n : a < b => ~(s.xPos_[q[b]] < s.xPos_[q[a]]) } }

Swap(v, a, b) == [ v EXCEPT ![a + 1] = v[b + 1], ![b + 1] = v[a + 1] ]

\* a reversal that forgets the values
RECURSIVE ReverseXOnly(_, _)
ReverseXOnly(s, i) ==
    LET n == numSamples(s)
    IN IF i <= (n - 1) \div 2
       THEN ReverseXOnly([ s EXCEPT !.xPos_ = Swap(s.xPos_, i, n - i - 1) ], i + 1)
       ELSE s

\* reverseSamplingPoints_: the loop from i on
RECURSIVE ReverseLoop(_, _)
ReverseLoop(s, i) ==
    LET n == numSamples(s)
    IN IF i <= (n - 1) \div 2
       THEN ReverseLoop([ s EXCEPT !.xPos_ = Swap(s.xPos_, i, n - i - 1),
                                   !.yPos_ = Swap(s.yPos_, i, n - i - 1) ], i + 1)
       ELSE s

reverseSamplingPoints_(s) == ReverseLoop(s, 0)

\* if( sortInputs ) sortInput_(); else if( xPos_[0] > xPos_[numSamples() - 1] )
\* reverseSamplingPoints_(). Without samples the comparison reads outside
\* the vectors and nothing that is stored changes.
Normalized(s, sortInputs) ==
    IF numSamples(s) = 0 THEN { s }
    ELSE IF sortInputs THEN sortInput_(s)
    ELSE IF s.xPos_[1] > s.xPos_[numSamples(s)] THEN { reverseSamplingPoints_(s) }
    ELSE { s }

\* the outcomes of the asserts of h_ while the slopes are computed: true
\* when one fails. makeMonotonicSpline_ does not call h_. With fewer
\* samples than the system reads, h_ compares values from outside the
\* vectors, and the assert may fail or pass.
HFailed(type, xs) ==
    LET n == Len(xs)
        needed == IF type = "Periodic" THEN 3 ELSE 2
    IN IF type = "Monotonic" THEN { FALSE }
       ELSE IF n < needed THEN BOOLEAN
       ELSE { \E i \in 1..(n - 1) : ~(xs[i + 1] > xs[i]) }

\* make...Spline_: every slope is written
WithSlopes(s, kind) ==
    [ s EXCEPT !.slopeVec_ =
        [ k \in 1..numSamples(s) |-> SlopeOf(kind, s.xPos_, s.yPos_, k) ] ]

\* a set operation through one of the entry points: the outcomes, each the
\* spline left behind, whether an assert failed on the way and whether
\* OPM_THROW was reached
SetOutcomes(s, entry, pts, kind, sortInputs) ==
    LET asserted == entry # "setContainerOfTuples" /\ ~(Len(pts) > 1)
        stored == Normalized(CopySamples(setNumSamples_(s, Len(pts)), pts), sortInputs)
    IN IF kind.typed /\ kind.type = "Full"
       THEN { [ spline |-> t, failed |-> asserted, thrown |-> TRUE ] : t \in stored }
       ELSE UNION { { [ spline |-> WithSlopes(t, kind), failed |-> asserted \/ f,
                        thrown |-> FALSE ] : f \in HFailed(kind.type, t.xPos_) } :
                    t \in stored }

\* set( x0, x1, y0, y1, m0, m1 )
setTwo(s, x0, x1, y0, y1, m0, m1) ==
    LET r == setNumSamples_(s, 2)
        t == IF x0 > x1
             THEN [ r EXCEPT !.xPos_ = << x1, x0 >>, !.yPos_ = << y1, y0 >> ]
             ELSE [ r EXCEPT !.xPos_ = << x0, x1 >>, !.yPos_ = << y0, y1 >> ]
        kind == [ typed |-> FALSE, type |-> "Full", m0 |-> m0, m1 |-> m1 ]
    IN [ spline |-> WithSlopes(t, kind), failed |-> ~(t.xPos_[2] > t.xPos_[1]),
         thrown |-> FALSE ]

\* the splines as constructed: Spline(), and Spline( x0, x1, y0, y1, m0, m1 )
\* over the whole range of positions
Constructed ==
    { NoSpline } \cup
    { setTwo(NoSpline, 0, MaxX, y0, y1, 0, 0).spline : y0 \in YVals, y1 \in YVals }

InitSet ==
    /\ builder = << >>
    /\ rows = 0
    /\ added = NoAdds
    /\ matrix = NoMatrix
    /\ converted = NoAdds
    /\ res = NoRes
    /\ ListIdle /\ PetscIdle /\ OwnIdle /\ IterIdle
    /\ spline \in Constructed
    /\ sop = NoSop

SetSamples(entry, pts, kind, sortInputs) ==
    /\ \E o \in SetOutcomes(spline, entry, pts, kind, sortInputs) :
        /\ spline' = o.spline
        /\ sop' = [ op |-> "set", entry |-> entry, pts |-> pts, kind |-> kind,
                    sortInputs |-> sortInputs, failed |-> o.failed,
                    thrown |-> o.thrown, before |-> spline ]
    /\ SplineFrame

SetTwo(x0, x1, y0, y1, m0, m1) ==
    /\ LET o == setTwo(spline, x0, x1, y0, y1, m0, m1)
       IN /\ spline' = o.spline
          /\ sop' = [ op |-> "set", entry |-> "set",
                      pts |-> << << x0, y0 >>, << x1, y1 >> >>,
                      kind |-> [ typed |-> FALSE, type |-> "Full", m0 |-> m0, m1 |-> m1 ],
                      sortInputs |-> FALSE, failed |-> o.failed,
                      thrown |-> o.thrown, before |-> spline ]
    /\ SplineFrame

\* one set operation on the spline as constructed
NextSet ==
    /\ sop = NoSop
    /\ \/ \E entry \in Entries, n \in 0..MaxPts, kind \in Kinds, sortInputs \in BOOLEAN :
            \E pts \in Points(n) : SetSamples(entry, pts, kind, sortInputs)
       \/ \E x0, x1 \in XVals, y0, y1 \in YVals, m0, m1 \in 0..MaxSlope :
            SetTwo(x0, x1, y0, y1, m0, m1)

SpecSet == InitSet /\ [][NextSet]_vars

----------------------------------------------------------------------------
\* Claims about the set operations

\* the set operation ran to its end without a failed assert and without
\* an exception
Succeeded == sop.op = "set" /\ ~sop.failed /\ ~sop.thrown

\* the input is malformed: fewer than two samples, or a full spline asked
\* of a setter that takes no boundary slopes
Malformed == Len(sop.pts) < 2 \/ (sop.kind.typed /\ sop.kind.type = "Full")

\* C16: construction is rejected for malformed input through every entry
\* point: with fewer than 2 samples, or with Full and no boundary slopes,
\* the set operation fails and builds no spline.
C16_MalformedRejected ==
    (sop.op = "set" /\ Malformed) => ~Succeeded

\* the x of the input, and whether they ascend or descend strictly
InputX == [ k \in 1..Len(sop.pts) |-> sop.pts[k][1] ]
Descending(xs) == \A a \in 1..(Len(xs) - 1) : xs[a] > xs[a + 1]
Reversed(v) == [ k \in 1..Len(v) |-> v[Len(v) + 1 - k] ]

\* C17: normalization round trip. For n >= 2 samples of strictly ascending
\* or strictly descending x and sortInputs = false, numSamples() is the
\* input count, xMin() the smallest and xMax() the largest input x, and
\* the stored pairs are the input in ascending order, so that an input and
\* its reversal are stored alike.
C17_Normalized ==
    (sop.op = "set" /\ Len(sop.pts) >= 2 /\ ~sop.sortInputs
        /\ (Ascending(InputX) \/ Descending(InputX))) =>
        LET up == IF Ascending(InputX) THEN sop.pts ELSE Reversed(sop.pts)
        IN /\ numSamples(spline) = Len(sop.pts)
           /\ \A k \in 1..Len(sop.pts) : xMin(spline) <= sop.pts[k][1]
           /\ \A k \in 1..Len(sop.pts) : xMax(spline) >= sop.pts[k][1]
           /\ \A k \in 1..Len(up) :
                spline.xPos_[k] = up[k][1] /\ spline.yPos_[k] = up[k][2]

\* three samples of descending x and values that differ were set
C17_Witness ==
    /\ Succeeded
    /\ ~sop.sortInputs
    /\ Len(sop.pts) = 3
    /\ Descending(InputX)
    /\ sop.pts[1][2] # sop.pts[3][2]

\* C18: after every successful set operation the stored x are strictly
\* increasing and there are at least 2 samples.
C18_SampleSetInvariant ==
    Succeeded => numSamples(spline) >= 2 /\ Ascending(spline.xPos_)

\* the slopes are those of the spline of the asked kind through the samples
SlopesComputed ==
    \A k \in 1..Len(spline.slopeVec_) :
        spline.slopeVec_[k] = SlopeOf(sop.kind, spline.xPos_, spline.yPos_, k)

\* the samples are the input
SamplesNew ==
    /\ numSamples(spline) = Len(sop.pts)
    /\ \A k \in 1..Len(sop.pts) : \E j \in 1..Len(sop.pts) :
            spline.xPos_[j] = sop.pts[k][1] /\ spline.yPos_[j] = sop.pts[k][2]

\* C19: a set operation replaces the three vectors atomically. After any
\* set call that no assert stops, one that fails with an exception
\* included, either all three vectors reflect the new input or all three
\* are unchanged.
C19_AtomicSet ==
    (sop.op = "set" /\ ~sop.failed) =>
        \/ spline = sop.before
        \/ SamplesNew /\ Len(spline.slopeVec_) = numSamples(spline) /\ SlopesComputed

----------------------------------------------------------------------------
\* Spline::monotonic

\* the coefficients of segment i in the monomial basis
a_(s, i) == QDiv(evalDerivative3_(s, Q(0), i), Q(6))
b_(s, i) == QDiv(evalDerivative2_(s, Q(0), i), Q(2))
c_(s, i) == evalDerivative_(s, Q(0), i)

\* x0*(x0*a + b) + c
Poly(a, b, c, x) == QAdd(QMul(x, QAdd(QMul(x, a), b)), c)

\* r = (r==3 || r == 1)?1:0 when the derivative is positive at x,
\* r = (r==3 || r == -1)?-1:0 otherwise
SignStep(a, b, c, x, r) ==
    IF QLess(Q(0), Poly(a, b, c, x))
    THEN (IF r = 3 \/ r = 1 THEN 1 ELSE 0)
    ELSE (IF r = 3 \/ r = -1 THEN -1 ELSE 0)

\* (x0 < xE1 && xE1 < x1) || (x0 < xE2 && xE2 < x1) for the two roots
\* (-b +- sqrt(disc))/(2*a) of a*x^2 + b*x + c, disc > 0, decided without
\* the square root: v is the point between the roots, and a*(a*x^2+b*x+c)
\* is negative between them. With a = 0 the roots are infinite or not a
\* number and every comparison is false.
RootBetween(a, b, c, x0, x1) ==
    IF a = Q(0) THEN FALSE
    ELSE LET v == QDiv(QSub(Q(0), b), QMul(Q(2), a))
             A0 == QMul(a, Poly(a, b, c, x0))
             A1 == QMul(a, Poly(a, b, c, x1))
             lowIn == /\ QLess(x0, v) /\ QLess(Q(0), A0)
                      /\ ~(QLess(x1, v) /\ ~QLess(A1, Q(0)))
             highIn == /\ QLess(v, x1) /\ QLess(Q(0), A1)
                       /\ ~(QLess(v, x0) /\ ~QLess(A0, Q(0)))
         IN lowIn \/ highIn

\* the body of monotonic_ for the derivative a*x^2 + b*x + c of a segment
MonoQuadratic(a, b, c, disc, x0, x1, r) ==
    IF a = Q(0) /\ b = Q(0) /\ c = Q(0) THEN r
    ELSE IF QLess(disc, Q(0)) THEN SignStep(a, b, c, x0, r)
    ELSE IF disc = Q(0)
         THEN IF a # Q(0) /\ QDiv(QSub(Q(0), b), QMul(Q(2), a)) = x0
              THEN SignStep(a, b, c, x1, r)
              ELSE SignStep(a, b, c, x0, r)
    ELSE IF RootBetween(a, b, c, x0, x1) THEN 0
    ELSE SignStep(a, b, c, QDiv(QAdd(x0, x1), Q(2)), r)

\* disc = b*b - 4*a*c
MonoDisc(a, b, c, x0, x1, r) ==
    MonoQuadratic(a, b, c, QSub(QMul(b, b), QMul(Q(4), QMul(a, c))), x0, x1, r)

\* monotonic_( i, x0, x1, r ): the r it leaves
monotonic_(s, i, x0, x1, r) ==
    MonoDisc(QMul(Q(3), a_(s, i)), QMul(Q(2), b_(s, i)), c_(s, i), x0, x1, r)

\* for (; i < iEnd - 1; ++i): the r it leaves, and whether it returned 0
RECURSIVE MonoLoop(_, _, _, _)
MonoLoopStep(s, i, iEnd, r) ==
    IF r = 0 THEN [ ret |-> TRUE, r |-> 0 ] ELSE MonoLoop(s, i + 1, iEnd, r)

MonoLoop(s, i, iEnd, r) ==
    IF i < iEnd - 1
    THEN MonoLoopStep(s, i, iEnd,
                      monotonic_(s, i, Q(x_(s, i)), Q(x_(s, i + 1)), r))
    ELSE [ ret |-> FALSE, r |-> r ]

\* x1 > xMax(): the result from the slope m at the last sample
MonoBeyond(m, r) ==
    IF QLess(m, Q(0)) THEN (IF r < 0 \/ r = 3 THEN -1 ELSE 0)
    ELSE IF QLess(Q(0), m) THEN (IF r > 0 \/ r = 3 THEN 1 ELSE 0)
    ELSE r

\* monotonic after its loop; failedLeft is the outcome of the assert
\* where x0 < xMin()
MonoLast(s, iEnd, x1, extrapolate, l, failedLeft) ==
    IF l.ret THEN [ value |-> 0, failed |-> failedLeft ]
    ELSE IF x1 > xMax(s)
    THEN [ value |-> MonoBeyond(evalDerivative_(s, Q(xMax(s)), numSamples(s) - 2), l.r),
           failed |-> failedLeft \/ ~extrapolate ]
    ELSE [ value |-> monotonic_(s, iEnd, Q(x_(s, iEnd)), Q(x1), l.r),
           failed |-> failedLeft ]

\* monotonic from int i = segmentIdx_(x0) on
MonoFrom(s, i, x0, x1, extrapolate, r, failedLeft) ==
    IF x_(s, i + 1) >= x1
    THEN [ value |-> monotonic_(s, i, Q(x0), Q(x1), r), failed |-> failedLeft ]
    ELSE MonoLast(s, segmentIdx_(s, x1), x1, extrapolate,
                  MonoLoop(s, i + 1, segmentIdx_(s, x1),
                           monotonic_(s, i, Q(x0), Q(x_(s, i + 1)), r)),
                  failedLeft)

\* monotonic for x0 < x1
MonoOrdered(s, x0, x1, extrapolate) ==
    IF x0 < xMin(s)
    THEN MonoFrom(s, segmentIdx_(s, xMin(s)), xMin(s), x1, extrapolate,
                  IF evalDerivative_(s, Q(xMin(s)), 0) = Q(0) THEN 1 ELSE 3,
                  ~extrapolate)
    ELSE MonoFrom(s, segmentIdx_(s, x0), x0, x1, extrapolate, 3, FALSE)

\* monotonic( x0, x1, extrapolate ), x0 # x1
monotonic(s, x0, x1, extrapolate) ==
    IF x0 > x1 THEN MonoOrdered(s, x1, x0, extrapolate)
    ELSE MonoOrdered(s, x0, x1, extrapolate)

\* makeMonotonicSpline_: the slopes of a Monotonic spline, as fractions.
\* delta[k], the slope of the secant of segment k
SecantSlope(s, k) == QDiv(Q(y_(s, k + 1) - y_(s, k)), Q(x_(s, k + 1) - x_(s, k)))

\* the "raw" slopes at the sample points
RawSlope(s, k) ==
    IF k = 0 THEN SecantSlope(s, 0)
    ELSE IF k = numSamples(s) - 1 THEN SecantSlope(s, numSamples(s) - 2)
    ELSE QDiv(QAdd(SecantSlope(s, k - 1), SecantSlope(s, k)), Q(2))

\* a / b < 0 as the division of two doubles decides it: a secant slope of
\* zero is +0.0, a / +0.0 is an infinity of the sign of a, and 0 / 0 is not
\* a number and less than nothing
QuotientNegative(a, b) ==
    IF b = Q(0) THEN QLess(a, Q(0)) ELSE QLess(QDiv(a, b), Q(0))

\* alpha*alpha + beta*beta > 3*3
OutsideCircle(alpha, beta) ==
    QLess(Q(9), QAdd(QMul(alpha, alpha), QMul(beta, beta)))

\* the loop that post-processes the raw slopes, from segment k on; limited
\* tells whether some pair of slopes was scaled by tau = 3.0/std::sqrt(...),
\* which no fraction represents
RECURSIVE PostProcess(_, _, _, _)
PostProcess(s, slopes, k, limited) ==
    IF ~(k < numSamples(s) - 1) THEN [ slopes |-> slopes, limited |-> limited ]
    ELSE IF SecantSlope(s, k) = Q(0)
    THEN PostProcess(s, [ slopes EXCEPT ![k + 1] = Q(0), ![k + 2] = Q(0) ],
                     k + 2, limited)
    ELSE IF \/ QLess(QDiv(slopes[k + 1], SecantSlope(s, k)), Q(0))
            \/ (k > 0 /\ QuotientNegative(slopes[k + 1], SecantSlope(s, k - 1)))
    THEN PostProcess(s, [ slopes EXCEPT ![k + 1] = Q(0) ], k + 1, limited)
    ELSE PostProcess(s, slopes, k + 1,
                     limited \/ OutsideCircle(QDiv(slopes[k + 1], SecantSlope(s, k)),
                                              QDiv(slopes[k + 2], SecantSlope(s, k))))

makeMonotonicSpline_(s) ==
    PostProcess(s, [ k \in 1..numSamples(s) |-> RawSlope(s, k - 1) ], 0, FALSE)

\* setXYArrays( n, x, y, Monotonic ) on samples in ascending order: the
\* Monotonic splines of n samples that the limiter left alone
MonotonicSplines(X, n) ==
    { [ s EXCEPT !.slopeVec_ = makeMonotonicSpline_(s).slopes ] :
        s \in { t \in { [ xPos_ |-> xs, yPos_ |-> ys, slopeVec_ |-> << >> ] :
                          xs \in { v \in [ 1..n -> X ] : Ascending(v) },
                          ys \in [ 1..n -> YVals ] } :
                  ~makeMonotonicSpline_(t).limited } }

MaxMonoX == 3

MonoXVals == 0..MaxMonoX
MonoQuery == (-1)..(MaxMonoX + 1)

\* a spline of two samples with the slopes given to its constructor, or a
\* Monotonic spline of three to MaxMonoX + 1 samples
InitMono ==
    /\ builder = << >>
    /\ rows = 0
    /\ added = NoAdds
    /\ matrix = NoMatrix
    /\ converted = NoAdds
    /\ res = NoRes
    /\ ListIdle /\ PetscIdle /\ OwnIdle /\ IterIdle
    /\ spline \in SplinesOf(MonoXVals, 2)
                   \cup UNION { MonotonicSplines(MonoXVals, n) : n \in 3..(MaxMonoX + 1) }
    /\ sop = NoSop

Monotonic(x0, x1, extrapolate) ==
    /\ x0 # x1
    /\ LET r == monotonic(spline, x0, x1, extrapolate)
       IN sop' = [ op |-> "monotonic", x0 |-> x0, x1 |-> x1,
                   extrapolate |-> extrapolate,
                   value |-> r.value, failed |-> r.failed ]
    /\ UNCHANGED spline
    /\ SplineFrame

\* monotonic is const: one call from the spline as it was built
NextMono ==
    /\ sop = NoSop
    /\ \E x0 \in MonoQuery, x1 \in MonoQuery, extrapolate \in BOOLEAN :
           Monotonic(x0, x1, extrapolate)

SpecMono == InitMono /\ [][NextMono]_vars

Min2(a, b) == IF a < b THEN a ELSE b
Max2(a, b) == IF a < b THEN b ELSE a

\* the segments of s that [x0, x1] overlaps over more than a point
Overlapped(s, x0, x1) ==
    { i \in 0..(numSamples(s) - 2) :
        Max2(Min2(x0, x1), x_(s, i)) < Min2(Max2(x0, x1), x_(s, i + 1)) }

\* the ends and the middle of what [x0, x1] overlaps of segment i
Probes(s, i, x0, x1) ==
    LET l == Max2(Min2(x0, x1), x_(s, i))
        h == Min2(Max2(x0, x1), x_(s, i + 1))
    IN { Q(l), Q(h), QDiv(Q(l + h), Q(2)) }

\* a result of 1 allows no negative derivative, a result of -1 no positive
\* one, and a result of 3 none but zero
Agrees(value, d) ==
    CASE value = 1 -> ~QLess(d, Q(0))
      [] value = -1 -> ~QLess(Q(0), d)
      [] value = 3 -> d = Q(0)
      [] OTHER -> TRUE

\* C20: monotonic(x0, x1) takes every segment that [x0, x1] overlaps into
\* account: when no assertion stops the call, a result of 1 (of -1, of 3)
\* means that on every overlapped segment the derivative of the spline is
\* nowhere negative (nowhere positive, zero) at the ends and in the middle
\* of the overlapped part.
C20_EverySegment ==
    (sop.op = "monotonic" /\ ~sop.failed) =>
        \A i \in Overlapped(spline, sop.x0, sop.x1) :
            \A x \in Probes(spline, i, sop.x0, sop.x1) :
                Agrees(sop.value, evalDerivative_(spline, x, i))

----------------------------------------------------------------------------
\* Claims on the segment lookup and on the extrapolate flag (SpecEval)

\* C25: for two or more samples with ascending x and any x, segmentIdx_
\* returns an index i with 0 <= i <= n-2; for xMin <= x < xMax it is the i
\* with x_i <= x < x_{i+1}, for x = xMax it is n-2, for x < xMin it is 0
\* and for x > xMax it is n-2.
C25_SegmentLookup ==
    sop.op = "segmentIdx_" =>
        LET n == numSamples(spline)
            i == sop.value
        IN /\ 0 <= i /\ i <= n - 2
           /\ (xMin(spline) <= sop.x /\ sop.x < xMax(spline)) =>
                /\ x_(spline, i) <= sop.x /\ sop.x < x_(spline, i + 1)
                /\ \A j \in 0..(n - 2) :
                     (x_(spline, j) <= sop.x /\ sop.x < x_(spline, j + 1)) => j = i
           /\ sop.x = xMax(spline) => i = n - 2
           /\ sop.x < xMin(spline) => i = 0
           /\ sop.x > xMax(spline) => i = n - 2

\* a lookup at the middle sample of three, which starts the second segment
C25_Witness ==
    /\ sop.op = "segmentIdx_"
    /\ numSamples(spline) = 3
    /\ sop.x = x_(spline, 1)
    /\ sop.value = 1

\* the public evaluation named op
EvalBy(op, s, x, extrapolate) ==
    CASE op = "eval" -> eval(s, x, extrapolate)
      [] op = "evalDerivative" -> evalDerivative(s, x, extrapolate)
      [] op = "evalSecondDerivative" -> evalSecondDerivative(s, x, extrapolate)
      [] op = "evalThirdDerivative" -> evalThirdDerivative(s, x, extrapolate)

\* C27: for x within [xMin, xMax] the extrapolate flag has no effect: each
\* of the four evaluations returns the value that the same call with the
\* flag inverted returns.
C27_FlagWithoutEffect ==
    (sop.op \in EvalOps /\ applies(spline, sop.x)) =>
        sop.value = EvalBy(sop.op, spline, sop.x, ~sop.extrapolate).value

----------------------------------------------------------------------------
\* Claims on the assertion of the second pass and on the const subscripts

\* C29: the assertion in the row-offset pass of the conversion (the write
\* cursor is past the start of the row offsets) holds at every iteration of
\* the loop, the first included: the conversion of a builder that holds
\* entries fails no assertion.
C29_RowPassAssertion ==
    res.op = "convert" => ~res.failed


MaxCallDepth == 3

ConstOps == { "matrix[x] const", "row[y] const" }

\* matrix[ x ] on a const matrix, or row[ y ] on a const row_ref of row x,
\* for a stored (x,y): the const operator[] is entered
ConstSubscript(op, x, y) ==
    /\ converted = added
    /\ Stored(x, y)
    /\ depth = 0
    /\ res.op \notin ConstOps
    /\ depth' = 1
    /\ res' = [ NoRes EXCEPT !.op = op, !.x = x, !.y = y ]
    /\ UNCHANGED << builder, rows, added, matrix, converted, visited, listVars,
                    petscVars, ownVars, splineVars >>

\* return this->operator[]( x ) in a const member: this is a pointer to
\* const, so the call is to the const operator[] again
ConstReenter ==
    /\ depth > 0
    /\ depth < MaxCallDepth
    /\ depth' = depth + 1
    /\ UNCHANGED << builder, rows, added, matrix, converted, res, visited,
                    listVars, petscVars, ownVars, splineVars >>

\* no room for one more activation: the program is ended
StackExhausted ==
    /\ depth = MaxCallDepth
    /\ ~res.failed
    /\ res' = [ res EXCEPT !.failed = TRUE ]
    /\ UNCHANGED << builder, rows, added, matrix, converted, iterVars,
                    listVars, petscVars, ownVars, splineVars >>

NextConst ==
    \/ depth = 0 /\ TotalAdds < MaxAdds
                 /\ \E i \in RowIdx, j \in ColIdx, v \in Vals : Add(i, j, v)
    \/ depth = 0 /\ Convert
    \/ \E op \in ConstOps, x \in RowIdx, y \in ColIdx : ConstSubscript(op, x, y)
    \/ ConstReenter
    \/ StackExhausted

\* a call that was entered goes on
SpecConst ==
    Init /\ [][NextConst]_vars /\ WF_vars(ConstReenter) /\ WF_vars(StackExhausted)

\* C30: the const overloads of the subscripts terminate and return what the
\* non-const overloads return: a const subscript that was entered for a
\* stored (x,y) leads to a state in which it has returned, and the element
\* it leads to is that of the non-const matrix[ x ][ y ].
C30_ConstSubscriptReturns ==
    (depth > 0) ~> (/\ depth = 0
                    /\ res.op \in ConstOps
                    /\ ~res.failed
                    /\ res.value = RowRefValue(matrix, res.x, res.y))

----------------------------------------------------------------------------
\* Claim on the extension left of xMin (SpecMono)

\* C28: with extrapolate set and x0 < xMin, monotonic( x0, x1 ) takes the
\* straight line left of xMin into account as it does the one right of
\* xMax: a slope at xMin that is not zero and whose sign is opposite to
\* the direction of the spline inside the interval gives 0, and a slope of
\* zero imposes no direction, so the result is that of the interval from
\* xMin on.
C28_LeftExtension ==
    LET lo == Min2(sop.x0, sop.x1)
        hi == Max2(sop.x0, sop.x1)
    IN (/\ sop.op = "monotonic"
        /\ sop.extrapolate
        /\ lo < xMin(spline)
        /\ hi > xMin(spline)) =>
          LET m == evalDerivative_(spline, Q(xMin(spline)), 0)
              inner == monotonic(spline, xMin(spline), hi, TRUE).value
          IN /\ ((QLess(m, Q(0)) /\ inner = 1) \/ (QLess(Q(0), m) /\ inner = -1)) =>
                    sop.value = 0
             /\ m = Q(0) => sop.value = inner

----------------------------------------------------------------------------
\* Spline: the linear systems of the moments and the slopes they give.
\* A matrix is a sequence of rows and a row a sequence of fractions; the
\* indices of the operators are C indices.

ZeroMatrix(n) == [ i \in 1..n |-> [ j \in 1..n |-> Q(0) ] ]
ZeroVector(n) == [ i \in 1..n |-> Q(0) ]

\* M[ i ][ j ] = v for every << i, j, v >> of the sequence as, in its order
RECURSIVE PutAll(_, _)
PutAll(M, as) ==
    IF as = << >> THEN M
    ELSE PutAll([ M EXCEPT ![as[1][1] + 1][as[1][2] + 1] = as[1][3] ], Tail(as))

\* the determinant, by expansion along the first row
Minor(M, j) ==
    [ r \in 1..(Len(M) - 1) |->
        [ c \in 1..(Len(M) - 1) |-> M[r + 1][IF c < j THEN c ELSE c + 1] ] ]

RECURSIVE Det(_)
RECURSIVE DetSum(_, _)
DetSum(M, j) ==
    IF j > Len(M) THEN Q(0)
    ELSE LET term == QMul(M[1][j], Det(Minor(M, j)))
         IN QAdd(IF j % 2 = 1 THEN term ELSE QSub(Q(0), term), DetSum(M, j + 1))

Det(M) == IF Len(M) = 1 THEN M[1][1] ELSE DetSum(M, 1)

ReplaceColumn(M, k, d) ==
    [ r \in 1..Len(M) |-> [ c \in 1..Len(M) |-> IF c = k THEN d[r] ELSE M[r][c] ] ]

\* M.solve( x, d ): the x with M x = d, for a regular M
solve(M, d) ==
    [ k \in 1..Len(M) |-> QDiv(Det(ReplaceColumn(M, k, d)), Det(M)) ]

\* lambda_i, mu_i and d_i of the inner rows
Lambda(s, i) == QDiv(Q(h_(s, i + 1)), Q(h_(s, i) + h_(s, i + 1)))
Mu(s, i) == QSub(Q(1), Lambda(s, i))
RightHandSide(s, i) ==
    QMul(QDiv(Q(6), Q(h_(s, i) + h_(s, i + 1))),
         QSub(QDiv(Q(y_(s, i + 1) - y_(s, i)), Q(h_(s, i + 1))),
              QDiv(Q(y_(s, i) - y_(s, i - 1)), Q(h_(s, i)))))

\* the assignments of the loop over the rows from..(to - 1); row i of the
\* spline is row i - shift of the matrix
RECURSIVE InnerRows(_, _, _, _)
InnerRows(s, from, to, shift) ==
    IF ~(from < to) THEN << >>
    ELSE << << from - shift, from - shift - 1, Mu(s, from) >>,
            << from - shift, from - shift, Q(2) >>,
            << from - shift, from - shift + 1, Lambda(s, from) >> >>
         \o InnerRows(s, from + 1, to, shift)

makeNaturalSystem_(s) ==
    LET n == numSamples(s) - 1
    IN [ M |-> PutAll(ZeroMatrix(n + 1),
                      InnerRows(s, 1, n, 0)
                      \o << << 0, 0, Q(2) >>, << 0, 1, Q(0) >>,
                            << n, n - 1, Q(0) >>, << n, n, Q(2) >> >>),
         d |-> [ k \in 1..(n + 1) |->
                   IF k - 1 >= 1 /\ k - 1 < n THEN RightHandSide(s, k - 1) ELSE Q(0) ] ]

makeFullSystem_(s, m0, m1) ==
    LET n == numSamples(s) - 1
        nat == makeNaturalSystem_(s)
        d0 == QMul(QDiv(Q(6), Q(h_(s, 1))),
                   QSub(QDiv(Q(y_(s, 1) - y_(s, 0)), Q(h_(s, 1))), m0))
        dn == QMul(QDiv(Q(6), Q(h_(s, n))),
                   QSub(m1, QDiv(Q(y_(s, n) - y_(s, n - 1)), Q(h_(s, n)))))
    IN [ M |-> PutAll(nat.M, << << 0, 1, Q(1) >>, << n, n - 1, Q(1) >> >>),
         d |-> [ nat.d EXCEPT ![1] = d0, ![n + 1] = dn ] ]

makePeriodicSystem_(s) ==
    LET n == numSamples(s) - 1
        lambda_n == QDiv(Q(h_(s, 1)), Q(h_(s, n) + h_(s, 1)))
        lambda_1 == QDiv(Q(h_(s, 2)), Q(h_(s, 1) + h_(s, 2)))
        mu_1 == QSub(Q(1), lambda_1)
        mu_n == QSub(Q(1), lambda_n)
        d_1 == RightHandSide(s, 1)
        d_n == QMul(QDiv(Q(6), Q(h_(s, n) + h_(s, 1))),
                    QSub(QDiv(Q(y_(s, 1) - y_(s, n)), Q(h_(s, 1))),
                         QDiv(Q(y_(s, n) - y_(s, n - 1)), Q(h_(s, n)))))
    IN [ M |-> PutAll(ZeroMatrix(n),
                      InnerRows(s, 2, n, 1)
                      \o << << 0, 0, Q(2) >>, << 0, 1, lambda_1 >>, << 0, n - 1, mu_1 >>,
                            << n - 1, 0, lambda_n >>, << n - 1, n - 2, mu_n >>,
                            << n - 1, n - 1, Q(2) >> >>),
         d |-> [ k \in 1..n |->
                   IF k = 1 THEN d_1
                   ELSE IF k = n THEN d_n
                   ELSE RightHandSide(s, k) ] ]

\* setSlopesFromMoments_: moments[ i ] is moments[i + 1] here
SlopeLeft(s, moments, i) ==
    LET h_i == Q(h_(s, i + 1))
        A_i == QSub(QDiv(Q(y_(s, i + 1) - y_(s, i)), h_i),
                    QMul(QDiv(h_i, Q(6)), QSub(moments[i + 2], moments[i + 1])))
    IN QAdd(QSub(Q(0), QDiv(QMul(moments[i + 1], QMul(h_i, h_i)), QMul(Q(2), h_i))), A_i)

SlopeRight(s, moments) ==
    LET n == numSamples(s)
        h == Q(h_(s, n - 1))
        A == QSub(QDiv(Q(y_(s, n - 1) - y_(s, n - 2)), h),
                  QMul(QDiv(h, Q(6)), QSub(moments[n], moments[n - 1])))
    IN QAdd(QDiv(QMul(moments[n], QMul(h, h)), QMul(Q(2), h)), A)

setSlopesFromMoments_(s, moments) ==
    [ s EXCEPT !.slopeVec_ =
        [ k \in 1..numSamples(s) |->
            IF k = numSamples(s) THEN SlopeRight(s, moments)
            ELSE SlopeLeft(s, moments, k - 1) ] ]

makeFullSpline_(s, m0, m1) ==
    LET sys == makeFullSystem_(s, m0, m1)
    IN setSlopesFromMoments_(s, solve(sys.M, sys.d))

\* the moments of a Periodic spline: those solved for, moved up by one,
\* and the last one copied to the front
PeriodicMoments(s) ==
    LET sys == makePeriodicSystem_(s)
        sol == solve(sys.M, sys.d)
        n == numSamples(s)
    IN [ k \in 1..n |-> IF k = 1 THEN sol[n - 1] ELSE sol[k - 1] ]

makePeriodicSpline_(s) == setSlopesFromMoments_(s, PeriodicMoments(s))

----------------------------------------------------------------------------
\* Construction of a spline with the slopes it computes

MaxBuildX == 5
MaxBuildY == 3

BuildXVals == 0..MaxBuildX
BuildYVals == 0..MaxBuildY

\* samples in ascending order, as setXYArrays stores them when they are
\* given in that order
Samples(xs, ys) == [ xPos_ |-> xs, yPos_ |-> ys, slopeVec_ |-> << >> ]

Built(type, x0, x1, m0, m1, limited) ==
    [ op |-> "set", type |-> type, x0 |-> x0, x1 |-> x1, m0 |-> m0, m1 |-> m1,
      limited |-> limited ]

\* set( x0, x1, y0, y1, m0, m1 ) with x0 # x1
SetFull(x0, x1, y0, y1, m0, m1) ==
    /\ x0 # x1
    /\ LET t == IF x0 > x1 THEN Samples(<< x1, x0 >>, << y1, y0 >>)
                ELSE Samples(<< x0, x1 >>, << y0, y1 >>)
       IN spline' = makeFullSpline_(t, Q(m0), Q(m1))
    /\ sop' = Built("Full", x0, x1, m0, m1, FALSE)
    /\ SplineFrame

\* setXYArrays( n, x, y, Periodic )
SetPeriodic(xs, ys) ==
    /\ spline' = makePeriodicSpline_(Samples(xs, ys))
    /\ sop' = Built("Periodic", 0, 0, 0, 0, FALSE)
    /\ SplineFrame

\* setXYArrays( n, x, y, Monotonic ); of a spline whose slopes were scaled
\* by the limiter the samples are kept and the slopes are not
SetMonotonic(xs, ys) ==
    /\ LET r == makeMonotonicSpline_(Samples(xs, ys))
       IN /\ spline' = [ Samples(xs, ys) EXCEPT
                           !.slopeVec_ = IF r.limited THEN << >> ELSE r.slopes ]
          /\ sop' = Built("Monotonic", 0, 0, 0, 0, r.limited)
    /\ SplineFrame

AscendingIn(X, n) == { v \in [ 1..n -> X ] : Ascending(v) }

NextBuild ==
    /\ sop = NoSop
    /\ \/ \E x0 \in XVals, x1 \in XVals, y0 \in YVals, y1 \in YVals,
            m0 \in SlopeVals, m1 \in SlopeVals : SetFull(x0, x1, y0, y1, m0, m1)
       \/ \E n \in 3..4 : \E xs \in AscendingIn(BuildXVals, n), ys \in [ 1..n -> BuildYVals ] :
            SetPeriodic(xs, ys)
       \/ \E n \in 3..4 : \E xs \in AscendingIn(BuildXVals, n), ys \in [ 1..n -> BuildYVals ] :
            SetMonotonic(xs, ys)

SpecBuild == Init /\ [][NextBuild]_vars

\* C26: after set( x0, x1, y0, y1, m0, m1 ) the derivative of the spline at
\* x0 is m0 and its derivative at x1 is m1, in whatever order x0 and x1 are
\* given
C26_BoundarySlopes ==
    (sop.op = "set" /\ sop.type = "Full") =>
        /\ evalDerivative(spline, sop.x0, FALSE).value = Q(sop.m0)
        /\ evalDerivative(spline, sop.x1, FALSE).value = Q(sop.m1)


\* C23: a Periodic spline of three or more samples whose first and last y
\* are equal has the same first derivative and the same second derivative
\* at xMin and at xMax, and the moment of its first sample is the moment of
\* its last sample.
C23_PeriodicEnds ==
    (/\ sop.op = "set" /\ sop.type = "Periodic"
     /\ y_(spline, 0) = y_(spline, numSamples(spline) - 1)) =>
        /\ evalDerivative(spline, xMin(spline), FALSE).value
             = evalDerivative(spline, xMax(spline), FALSE).value
        /\ evalSecondDerivative(spline, xMin(spline), FALSE).value
             = evalSecondDerivative(spline, xMax(spline), FALSE).value
        /\ PeriodicMoments(spline)[1] = PeriodicMoments(spline)[numSamples(spline)]

\* the points of segment i at which the spline is looked at: its ends and
\* its quarters
Quarters(s, i) ==
    { QAdd(Q(x_(s, i)), QDiv(Q(j * h_(s, i + 1)), Q(4))) : j \in 0..4 }

NonDecreasing(ys) == \A a \in 1..(Len(ys) - 1) : ys[a] <= ys[a + 1]

QLeq(a, b) == ~QLess(b, a)

\* C21: a Monotonic spline through samples of ascending x and
\* non-decreasing y stays between y_i and y_{i+1} on segment i and does not
\* decrease from one point of a segment to the next.
C21_ShapePreserved ==
    (/\ sop.op = "set" /\ sop.type = "Monotonic" /\ ~sop.limited
     /\ NonDecreasing(spline.yPos_)) =>
        \A i \in 0..(numSamples(spline) - 2) :
            /\ \A x \in Quarters(spline, i) :
                /\ QLeq(Q(y_(spline, i)), eval_(spline, x, i))
                /\ QLeq(eval_(spline, x, i), Q(y_(spline, i + 1)))
            /\ \A x \in Quarters(spline, i), z \in Quarters(spline, i) :
                QLess(x, z) => QLeq(eval_(spline, x, i), eval_(spline, z, i))

\* C22: after the construction of a Monotonic spline every segment k whose
\* secant slope delta_k is not zero has
\* (slope_k/delta_k)^2 + (slope_{k+1}/delta_k)^2 <= 9.
C22_FritschCarlson ==
    (sop.op = "set" /\ sop.type = "Monotonic" /\ ~sop.limited) =>
        \A k \in 0..(numSamples(spline) - 2) :
            SecantSlope(spline, k) # Q(0) =>
                ~OutsideCircle(QDiv(slope_(spline, k), SecantSlope(spline, k)),
                               QDiv(slope_(spline, k + 1), SecantSlope(spline, k)))

----------------------------------------------------------------------------
\* Spline::intersectInterval

d_(s, i) == eval_(s, Q(0), i)

\* ((a*x + b)*x + c)*x + d for the polynomial p = << a, b, c, d >>
Cubic(p, x) == QAdd(QMul(x, QAdd(QMul(x, QAdd(QMul(x, p[1]), p[2])), p[3])), p[4])

\* the whole number whose square is n, or the first whose square is larger
RECURSIVE RootFrom(_, _)
RootFrom(n, k) == IF k * k >= n THEN k ELSE RootFrom(n, k + 1)

IsSquare(f) ==
    /\ f[1] >= 0
    /\ RootFrom(f[1], 0) * RootFrom(f[1], 0) = f[1]
    /\ RootFrom(f[2], 0) * RootFrom(f[2], 0) = f[2]

SquareRoot(f) == << RootFrom(f[1], 0), RootFrom(f[2], 0) >>

\* the fractions among which a root of a cubic is looked for
MaxNumerator == 16
MaxDenominator == 4
Candidates ==
    { QDiv(Q(n), Q(m)) : n \in (-MaxNumerator)..MaxNumerator, m \in 1..MaxDenominator }

\* the real roots of c*x + d, c # 0
LinearRoots(c, d) == [ roots |-> { QDiv(QSub(Q(0), d), c) }, exact |-> TRUE ]

\* the real roots of b*x^2 + c*x + d, b # 0. exact is false when the roots
\* are no fractions and when a root is a double one, which may be counted
\* once or twice
QuadraticRoots(b, c, d) ==
    LET disc == QSub(QMul(c, c), QMul(Q(4), QMul(b, d)))
    IN IF QLess(disc, Q(0)) THEN [ roots |-> {}, exact |-> TRUE ]
       ELSE IF disc = Q(0) \/ ~IsSquare(disc) THEN [ roots |-> {}, exact |-> FALSE ]
       ELSE [ roots |-> { QDiv(QAdd(QSub(Q(0), c), SquareRoot(disc)), QMul(Q(2), b)),
                          QDiv(QSub(QSub(Q(0), c), SquareRoot(disc)), QMul(Q(2), b)) },
              exact |-> TRUE ]

\* the real roots of p with p[1] # 0, through a root r that is a candidate
\* and the quadratic that is left when x - r is divided out
CubicRoots(p, found) ==
    IF found = {} THEN [ roots |-> {}, exact |-> FALSE ]
    ELSE LET r == CHOOSE f \in found : TRUE
             b == QAdd(p[2], QMul(p[1], r))
             c == QAdd(p[3], QMul(b, r))
             rest == QuadraticRoots(p[1], b, c)
         IN [ roots |-> rest.roots \cup { r },
              exact |-> rest.exact /\ r \notin rest.roots ]

\* Opm::invertCubicPolynomial( sol, a, b, c, d ): the real roots of
\* a*x^3 + b*x^2 + c*x + d, each once, and whether the fractions found are
\* all of them; the zero polynomial has no roots to return
invertCubicPolynomial(p) ==
    IF p[1] # Q(0) THEN CubicRoots(p, { f \in Candidates : Cubic(p, f) = Q(0) })
    ELSE IF p[2] # Q(0) THEN QuadraticRoots(p[2], p[3], p[4])
    ELSE IF p[3] # Q(0) THEN LinearRoots(p[3], p[4])
    ELSE [ roots |-> {}, exact |-> p[4] # Q(0) ]

\* the spline on segment i minus the polynomial p
Difference(s, i, p) ==
    << QSub(a_(s, i), p[1]), QSub(b_(s, i), p[2]),
       QSub(c_(s, i), p[3]), QSub(d_(s, i), p[4]) >>

\* what invertCubicPolynomial returns for each segment of s, segment i at
\* position i + 1
SegmentRoots(s, p) ==
    [ k \in 1..(numSamples(s) - 1) |-> invertCubicPolynomial(Difference(s, k - 1, p)) ]

\* intersectSegment_: the roots that lie in [max(x_(segIdx), x0),
\* min(x_(segIdx+1), x1)]
intersectSegment_(s, segIdx, roots, x0, x1) ==
    { f \in roots[segIdx + 1].roots :
        /\ ~QLess(f, Q(Max2(x_(s, segIdx), x0)))
        /\ ~QLess(Q(Min2(x_(s, segIdx + 1), x1)), f) }

\* the loop of intersectInterval from segment i on: nSol intersections were
\* counted and sol is the last one that was alone in its segment
RECURSIVE IntersectLoop(_, _, _, _, _, _, _, _)
IntersectLoop(s, i, iLast, roots, x0, x1, nSol, sol) ==
    IF i > iLast
    THEN [ thrown |-> nSol # 1, value |-> sol ]
    ELSE IF Cardinality(intersectSegment_(s, i, roots, x0, x1)) = 1
    THEN IF nSol + 1 > 1
         THEN [ thrown |-> TRUE, value |-> sol ]
         ELSE IntersectLoop(s, i + 1, iLast, roots, x0, x1, nSol + 1,
                            CHOOSE f \in intersectSegment_(s, i, roots, x0, x1) : TRUE)
    ELSE IF nSol + Cardinality(intersectSegment_(s, i, roots, x0, x1)) > 1
         THEN [ thrown |-> TRUE, value |-> sol ]
         ELSE IntersectLoop(s, i + 1, iLast, roots, x0, x1, nSol, sol)

intersectInterval(s, x0, x1, roots) ==
    IntersectLoop(s, segmentIdx_(s, x0), segmentIdx_(s, x1), roots, x0, x1, 0, Q(0))

MaxCoef == 1

Polynomials ==
    { << Q(a), Q(b), Q(c), Q(d) >> :
        a \in 0..MaxCoef, b \in 0..MaxCoef, c \in (-MaxCoef)..MaxCoef, d \in 0..MaxCoef }

\* the points of [x0, x1] at which the spline s meets the polynomial whose
\* differences to the segments of s have the given roots
Intersections(s, x0, x1, roots) ==
    UNION { intersectSegment_(s, i, roots, x0, x1) : i \in 0..(numSamples(s) - 2) }

\* intersectInterval( x0, x1, a, b, c, d ) with x0 < x1. exact tells that
\* the roots of every segment are known, met those there are
IntersectInterval(x0, x1, p) ==
    /\ x0 < x1
    /\ \E roots \in { SegmentRoots(spline, p) } :
         \E r \in { intersectInterval(spline, x0, x1, roots) } :
            sop' = [ op |-> "intersectInterval", x0 |-> x0, x1 |-> x1, p |-> p,
                     failed |-> ~(applies(spline, x0) /\ applies(spline, x1)),
                     exact |-> \A k \in DOMAIN roots : roots[k].exact,
                     met |-> Intersections(spline, x0, x1, roots),
                     thrown |-> r.thrown, value |-> r.value ]
    /\ UNCHANGED spline
    /\ SplineFrame

NextIntersect ==
    /\ sop = NoSop
    /\ \E x0 \in XVals, x1 \in XVals, p \in Polynomials : IntersectInterval(x0, x1, p)

SpecIntersect == InitEval /\ [][NextIntersect]_vars

\* C24: intersectInterval( x0, x1, a, b, c, d ) returns the x of the
\* intersection when the spline and the polynomial meet at exactly one
\* point of [x0, x1], a point on a sample between two segments included,
\* and fails exactly when they meet at no point or at more than one.
C24_OneIntersection ==
    (sop.op = "intersectInterval" /\ ~sop.failed /\ sop.exact) =>
        /\ sop.thrown <=> Cardinality(sop.met) # 1
        /\ ~sop.thrown => sop.value \in sop.met

====
